---------------------------- MODULE Spec2Model ----------------------------
(***************************************************************************)
(* Model of the agent execution runtime                                    *)
(* (packages/execution/runtime/runtime/src): skill graph, agent compiler,  *)
(* token optimizer, skill executor and execution engine.                   *)
(*                                                                         *)
(* Conventions                                                             *)
(*   - A Rust Result is a record [ok |-> TRUE, value |-> v] or             *)
(*     [ok |-> FALSE, error |-> e]; an Option is None or Some(v).          *)
(*   - A Rust String whose bytes matter is a sequence of code points; its  *)
(*     byte length is the sum of the UTF-8 widths of its code points.      *)
(*     Skill ids, JSON keys and JSON strings are such strings.             *)
(***************************************************************************)
EXTENDS Integers, Sequences, FiniteSets, TLC

VARIABLES
    graph,            \* SkillGraph under test (SpecGraph)
    validate_result,  \* what SkillGraph::validate returned, or NotCalled
    order_result,     \* what SkillGraph::topological_order returned, or NotCalled
    user_config,           \* the UserAgentConfig handed to compile, or NotCalled
    skills,       \* the skills slice handed to compile
    compile_result,   \* what AgentCompiler::compile returned, or NotCalled
    overflow_checks,  \* the build has overflow checks on (debug) or off (release)
    max_runs,         \* how many execute calls the engine under test receives
    skill_executor,   \* ExecutionEngine.skill_executor: input cache and handlers
    prompt_cache,     \* ExecutionEngine.prompt_cache: skill id -> system prompt
    schema_cache,     \* ExecutionEngine.schema_cache: skill id -> output schema
    delta_engine,     \* ExecutionEngine.delta_engine.stored_outputs
    tracker,          \* ExecutionEngine.tracker
    pc,               \* "idle", "running" (inside execute) or "panicked"
    order,            \* execute: the topological order being walked
    position,         \* execute: index in order of the next skill
    budget_remaining, \* execute: budget_remaining
    outputs,          \* execute: outputs
    execute_result,   \* what the last execute returned, or NotCalled
    runs,             \* execute calls started on this engine
    run_log,          \* history: one entry per pass of the loop of this run
    stored_in,        \* history: skill id -> the run that stored its output
    run_start,        \* history: the agent and the engine at the entry of this run
    calls             \* history: the calls made on a component under test; on an
                      \* engine, skill id -> the system_instruction of the agent
                      \* whose run was the first to reach the skill

graph_vars == <<graph, validate_result, order_result>>
compile_vars == <<user_config, skills, compile_result>>
engine_vars ==
    <<overflow_checks, max_runs, skill_executor, prompt_cache, schema_cache, delta_engine,
      tracker, pc, order, position, budget_remaining, outputs, execute_result, runs,
      run_log, stored_in, run_start, calls>>
vars == <<graph_vars, compile_vars, engine_vars>>

---------------------------------------------------------------------------
(* Result / Option *)

Ok(v) == [ok |-> TRUE, value |-> v]
Err(e) == [ok |-> FALSE, error |-> e]
None == [some |-> FALSE]
Some(v) == [some |-> TRUE, value |-> v]
NotCalled == [called |-> FALSE]

---------------------------------------------------------------------------
(* Bounds of the model *)

\* longest node list of a graph under test
MaxNodes == 3
\* most dependencies (over all nodes) of a graph under test
MaxEdges == 3

---------------------------------------------------------------------------
(* Strings: sequences of code points *)

\* the skill ids of the model: "a", "ab", "b" (code points 97 = a, 98 = b)
id_a == <<97>>
id_ab == <<97, 98>>
id_b == <<98>>

SkillIdSet == {id_a, id_ab, id_b}

\* str::cmp(a, b) == Less: byte-wise lexicographic order, which on UTF-8 is
\* the lexicographic order of the code points
RECURSIVE StrLess(_, _)
StrLess(a, b) ==
    IF b = <<>> THEN FALSE
    ELSE IF a = <<>> THEN TRUE
    ELSE IF a[1] < b[1] THEN TRUE
    ELSE IF a[1] > b[1] THEN FALSE
    ELSE StrLess(Tail(a), Tail(b))

---------------------------------------------------------------------------
(* Sequence helpers *)

Range(s) == {s[i] : i \in 1..Len(s)}

Contains(s, x) == \E i \in 1..Len(s) : s[i] = x

Reverse(s) == [i \in 1..Len(s) |-> s[Len(s) + 1 - i]]

RECURSIVE InsertSorted(_, _)
InsertSorted(s, x) ==
    IF s = <<>> THEN <<x>>
    ELSE IF StrLess(x, Head(s)) THEN <<x>> \o s
    ELSE <<Head(s)>> \o InsertSorted(Tail(s), x)

\* slice::sort on a Vec<&str>: ascending, stable
RECURSIVE SortStrs(_)
SortStrs(s) ==
    IF s = <<>> THEN <<>>
    ELSE InsertSorted(SortStrs(SubSeq(s, 1, Len(s) - 1)), s[Len(s)])

\* the keys of a hash map collected into a Vec and sorted: the iteration
\* order of the map does not survive the sort
RECURSIVE SortedSet(_)
SortedSet(S) ==
    IF S = {} THEN <<>>
    ELSE LET m == CHOOSE x \in S : \A y \in S : ~StrLess(y, x)
         IN <<m>> \o SortedSet(S \ {m})

---------------------------------------------------------------------------
(* skill_graph.rs *)

SkillNode(id, deps) == [skill_id |-> id, dependencies |-> deps]
DependencySpec(src, fields) == [source_skill |-> src, fields |-> fields]

CycleDetected == [kind |-> "CycleDetected"]
MissingDependency(skill, missing) ==
    [kind |-> "MissingDependency", skill |-> skill, missing |-> missing]

\* all (node index, dependency index) pairs in iteration order of the two
\* nested loops `for node in &self.nodes { for dep in &node.dependencies`
RECURSIVE DepPairsFrom(_, _, _)
DepPairsFrom(nodes, i, j) ==
    IF i > Len(nodes) THEN <<>>
    ELSE IF j > Len(nodes[i].dependencies) THEN DepPairsFrom(nodes, i + 1, 1)
    ELSE <<(<<i, j>>)>> \o DepPairsFrom(nodes, i, j + 1)

DepPairs(nodes) == DepPairsFrom(nodes, 1, 1)

NodeIds(nodes) == {nodes[i].skill_id : i \in 1..Len(nodes)}

\* an in_degree that counts only the dependencies whose source is a node
InDegreeOnNodes(nodes) ==
    [id \in NodeIds(nodes) |->
        Cardinality({p \in Range(DepPairs(nodes)) :
                        /\ nodes[p[1]].skill_id = id
                        /\ nodes[p[1]].dependencies[p[2]].source_skill \in NodeIds(nodes)})]

\* in_degree after the two construction loops (lines 54-66): one entry per
\* distinct node id, counting every dependency of every node with that id
InDegree(nodes) ==
    [id \in NodeIds(nodes) |->
        Cardinality({p \in Range(DepPairs(nodes)) : nodes[p[1]].skill_id = id})]

\* adj after the construction loops: for every node id and every dependency
\* source, the dependants in push order
RECURSIVE AdjList(_, _, _)
AdjList(nodes, pairs, src) ==
    IF pairs = <<>> THEN <<>>
    ELSE LET p == Head(pairs)
             rest == AdjList(nodes, Tail(pairs), src)
         IN IF nodes[p[1]].dependencies[p[2]].source_skill = src
            THEN <<nodes[p[1]].skill_id>> \o rest
            ELSE rest

AdjKeys(nodes) ==
    NodeIds(nodes) \cup
    {nodes[p[1]].dependencies[p[2]].source_skill : p \in Range(DepPairs(nodes))}

Adj(nodes) == [src \in AdjKeys(nodes) |-> AdjList(nodes, DepPairs(nodes), src)]

\* Release without the `if *deg == 0` test: every decremented neighbour is
\* pushed onto next_ready
RECURSIVE ReleaseEager(_, _, _, _)
ReleaseEager(neighbors, in_degree, next_ready, underflow) ==
    IF neighbors = <<>>
    THEN [in_degree |-> in_degree, next_ready |-> next_ready, underflow |-> underflow]
    ELSE LET nb == Head(neighbors) IN
         IF nb \notin DOMAIN in_degree \/ in_degree[nb] = 0
         THEN ReleaseEager(Tail(neighbors), in_degree, next_ready, underflow)
         ELSE ReleaseEager(Tail(neighbors),
                           [in_degree EXCEPT ![nb] = in_degree[nb] - 1],
                           Append(next_ready, nb), underflow)

\* the `for &neighbor in neighbors` loop (lines 81-88): returns the updated
\* in_degree and next_ready; underflow is TRUE when `*deg -= 1` met a zero
RECURSIVE Release(_, _, _, _)
Release(neighbors, in_degree, next_ready, underflow) ==
    IF neighbors = <<>>
    THEN [in_degree |-> in_degree, next_ready |-> next_ready, underflow |-> underflow]
    ELSE LET nb == Head(neighbors) IN
         IF nb \notin DOMAIN in_degree
         THEN Release(Tail(neighbors), in_degree, next_ready, underflow)
         ELSE IF in_degree[nb] = 0
         THEN Release(Tail(neighbors), in_degree, next_ready, TRUE)
         ELSE LET deg == in_degree[nb] - 1
                  d2 == [in_degree EXCEPT ![nb] = deg]
              IN Release(Tail(neighbors), d2,
                         IF deg = 0 THEN Append(next_ready, nb) ELSE next_ready,
                         underflow)

\* the `while let Some(current) = queue.pop()` loop (lines 77-94); the queue
\* is a Vec used as a stack: pop takes its last element
RECURSIVE KahnLoop(_, _, _, _)
KahnLoop(queue, in_degree, emitted, adj) ==
    IF queue = <<>> THEN [order |-> emitted, underflow |-> FALSE]
    ELSE LET current == queue[Len(queue)]
             popped == SubSeq(queue, 1, Len(queue) - 1)
             r == Release(adj[current], in_degree, <<>>, FALSE)
         IN IF current \notin DOMAIN adj
            THEN KahnLoop(popped, in_degree, Append(emitted, current), adj)
            ELSE IF r.underflow
            THEN [order |-> Append(emitted, current), underflow |-> TRUE]
            ELSE KahnLoop(popped \o Reverse(SortStrs(r.next_ready)),
                          r.in_degree, Append(emitted, current), adj)

UsizeUnderflow == [kind |-> "panic: attempt to subtract with overflow"]

\* topological_order without the `order.len() != n` test
TopologicalOrderNoLenCheck(nodes) ==
    LET in_degree == InDegree(nodes)
        queue == SortedSet({id \in DOMAIN in_degree : in_degree[id] = 0})
    IN Ok(KahnLoop(queue, in_degree, <<>>, Adj(nodes)).order)

\* the keys of in_degree that pass `.filter(|(_, &deg)| deg == 0)` (lines 68-71)
ZeroInDegree(nodes) == {id \in DOMAIN InDegree(nodes) : InDegree(nodes)[id] = 0}

\* the orders in which HashMap::iter may yield the keys S: the map is
\* hashed with a per-process random seed, so every order can happen
IterationOrders(S) == {s \in [1..Cardinality(S) -> S] : Range(s) = S}

\* topological_order without `queue.sort()`: the queue keeps the order in
\* which the hash map yielded its keys
SortQueueOmitted(queue) == queue

\* `queue.sort()` (line 72)
SortQueue(queue) == SortStrs(queue)

\* topological_order that compares the length of the order with the number
\* of distinct node ids, not with nodes.len()
TopologicalOrderDistinctIds(nodes, collected) ==
    LET in_degree == InDegree(nodes)
        queue == SortQueue(collected)
        k == KahnLoop(queue, in_degree, <<>>, Adj(nodes))
    IN IF k.underflow THEN Err(UsizeUnderflow)
       ELSE IF Len(k.order) # Cardinality(NodeIds(nodes)) THEN Err(CycleDetected)
       ELSE Ok(k.order)

\* SkillGraph::topological_order, `collected` being the zero in-degree keys
\* in the order in_degree.iter() yielded them
TopologicalOrderIter(nodes, collected) ==
    LET in_degree == InDegree(nodes)
        queue == SortQueue(collected)
        k == KahnLoop(queue, in_degree, <<>>, Adj(nodes))
    IN IF k.underflow THEN Err(UsizeUnderflow)
       ELSE IF Len(k.order) # Len(nodes) THEN Err(CycleDetected)
       ELSE Ok(k.order)

\* SkillGraph::topological_order where the caller does not observe the
\* iteration order of the hash map (the sort of line 72 erases it)
TopologicalOrder(nodes) ==
    TopologicalOrderIter(nodes, SortedSet(ZeroInDegree(nodes)))

\* validate with the two checks in the other order: the topological order
\* first, the missing-dependency scan after it
ValidateOrderFirst(nodes) ==
    LET t == TopologicalOrder(nodes)
        pairs == DepPairs(nodes)
        missing == {i \in 1..Len(pairs) :
                      nodes[pairs[i][1]].dependencies[pairs[i][2]].source_skill
                          \notin NodeIds(nodes)}
    IN IF ~t.ok THEN t
       ELSE IF missing # {}
       THEN LET p == pairs[CHOOSE m \in missing : \A o \in missing : m <= o]
            IN Err(MissingDependency(nodes[p[1]].skill_id,
                                     nodes[p[1]].dependencies[p[2]].source_skill))
       ELSE Ok(<<>>)

\* SkillGraph::validate
Validate(nodes) ==
    LET pairs == DepPairs(nodes)
        missing == {i \in 1..Len(pairs) :
                      nodes[pairs[i][1]].dependencies[pairs[i][2]].source_skill
                          \notin NodeIds(nodes)}
    IN IF missing # {}
       THEN LET i == CHOOSE m \in missing : \A o \in missing : m <= o
                p == pairs[i]
            IN Err(MissingDependency(nodes[p[1]].skill_id,
                                     nodes[p[1]].dependencies[p[2]].source_skill))
       ELSE LET t == TopologicalOrder(nodes)
            IN IF t.ok THEN Ok(<<>>) ELSE t

---------------------------------------------------------------------------
(* Strings and JSON values (serde_json::Value) *)

\* str::len of one char: the bytes of its UTF-8 encoding
Utf8Width(c) == IF c < 128 THEN 1 ELSE IF c < 2048 THEN 2 ELSE IF c < 65536 THEN 3 ELSE 4

\* str::len
RECURSIVE ByteLen(_)
ByteLen(s) == IF s = <<>> THEN 0 ELSE Utf8Width(Head(s)) + ByteLen(Tail(s))

\* the strings the model's JSON is written with, as code points
s_input == <<105, 110, 112, 117, 116>>
s_start == <<115, 116, 97, 114, 116>>
s_results == <<114, 101, 115, 117, 108, 116, 115>>
s_summary == <<115, 117, 109, 109, 97, 114, 121>>
s_type == <<116, 121, 112, 101>>
s_object == <<111, 98, 106, 101, 99, 116>>
s_required == <<114, 101, 113, 117, 105, 114, 101, 100>>
s_properties == <<112, 114, 111, 112, 101, 114, 116, 105, 101, 115>>
s_extra == <<101, 120, 116, 114, 97>>
s_local == <<108, 111, 99, 97, 108>>

JNull == [kind |-> "null"]
JNum(n) == [kind |-> "number", n |-> n]
JStr(s) == [kind |-> "string", s |-> s]
JArr(items) == [kind |-> "array", items |-> items]
\* an object is a function from its keys to their values
JObj(fields) == [kind |-> "object", fields |-> fields]

EmptyMap == [k \in {} |-> JNull]

\* Value::as_object().is_some()
IsObject(v) == v.kind = "object"

\* a map with the single entry k -> v
Entry(k, v) == [x \in {k} |-> v]

\* Map::insert on every entry of m2 in turn: m2 wins on a shared key
Merge(m1, m2) ==
    [k \in DOMAIN m1 \cup DOMAIN m2 |-> IF k \in DOMAIN m2 THEN m2[k] ELSE m1[k]]

Restrict(m, keys) == [k \in DOMAIN m \cap keys |-> m[k]]

\* bytes serde_json writes for one char of a string: quote, backslash and
\* \b \t \n \f \r take two, any other control char six (\u00XX)
EscapedWidth(c) ==
    IF c \in {34, 92, 8, 9, 10, 12, 13} THEN 2
    ELSE IF c < 32 THEN 6
    ELSE Utf8Width(c)

RECURSIVE EscapedLen(_)
EscapedLen(s) == IF s = <<>> THEN 0 ELSE EscapedWidth(Head(s)) + EscapedLen(Tail(s))

\* decimal digits of a non-negative integer
RECURSIVE Digits(_)
Digits(n) == IF n < 10 THEN 1 ELSE 1 + Digits(n \div 10)

\* serde_json::to_string(v).len(): compact output, no spaces
RECURSIVE SerializedLen(_)
RECURSIVE SerializedItemsLen(_)
RECURSIVE SerializedFieldsLen(_, _)
SerializedLen(v) ==
    CASE v.kind = "null" -> 4
      [] v.kind = "number" -> Digits(v.n)
      [] v.kind = "string" -> 2 + EscapedLen(v.s)
      [] v.kind = "array" ->
           2 + SerializedItemsLen(v.items)
             + (IF Len(v.items) > 1 THEN Len(v.items) - 1 ELSE 0)
      [] v.kind = "object" ->
           2 + SerializedFieldsLen(v.fields, DOMAIN v.fields)
             + (IF Cardinality(DOMAIN v.fields) > 1
                THEN Cardinality(DOMAIN v.fields) - 1 ELSE 0)
SerializedItemsLen(items) ==
    IF items = <<>> THEN 0
    ELSE SerializedLen(Head(items)) + SerializedItemsLen(Tail(items))
SerializedFieldsLen(fields, keys) ==
    IF keys = {} THEN 0
    ELSE LET k == CHOOSE x \in keys : TRUE
         IN 2 + EscapedLen(k) + 1 + SerializedLen(fields[k])
              + SerializedFieldsLen(fields, keys \ {k})

---------------------------------------------------------------------------
(* skill.rs *)

JsonSchema(schema) == [schema |-> schema]

\* a descriptor {"type":"object","required":[...],"properties":{...}}
ObjectSchema(required, properties) ==
    JsonSchema(JObj(
        Merge(Merge(Entry(s_type, JStr(s_object)),
                    Entry(s_required, JArr([i \in 1..Len(required) |-> JStr(required[i])]))),
              Entry(s_properties, JObj([p \in properties |-> JObj(Entry(s_type, JStr(s_object)))])))))

SkillDefinition(id, input_schema, output_schema, execution_mode, max_output_tokens) ==
    [id |-> id, input_schema |-> input_schema, output_schema |-> output_schema,
     execution_mode |-> execution_mode, max_output_tokens |-> max_output_tokens,
     compact_keys |-> None]

\* SkillDefinition::is_deterministic
IsDeterministic(skill) == skill.execution_mode = "Deterministic"

---------------------------------------------------------------------------
(* agent_template.rs *)

AgentTemplate(id, allowed_skills, default_memory_tier, response_mode, max_budget, system_instruction) ==
    [id |-> id, allowed_skills |-> allowed_skills,
     default_memory_tier |-> default_memory_tier, response_mode |-> response_mode,
     max_budget |-> max_budget, system_instruction |-> system_instruction,
     output_schema |-> JObj(Entry(s_type, JStr(s_object)))]

\* TemplateRegistry::get
RegistryGet(registry, id) ==
    IF id \in DOMAIN registry THEN Some(registry[id]) ELSE None

---------------------------------------------------------------------------
(* agent_compiler.rs *)

UserAgentConfig(base_template, selected_skills, memory_tier_override, budget_limit, skill_dependencies) ==
    [name |-> <<>>, base_template |-> base_template,
     selected_skills |-> selected_skills,
     memory_tier_override |-> memory_tier_override, budget_limit |-> budget_limit,
     skill_dependencies |-> skill_dependencies]

SkillDep(skill_id, depends_on, fields) ==
    [skill_id |-> skill_id, depends_on |-> depends_on, fields |-> fields]

TemplateNotFound(id) == [kind |-> "TemplateNotFound", template |-> id]
SkillNotAllowed(skill, template) ==
    [kind |-> "SkillNotAllowed", skill |-> skill, template |-> template]
UnknownSkill(id) == [kind |-> "UnknownSkill", skill |-> id]
BudgetExceeded(requested, max) ==
    [kind |-> "BudgetExceeded", requested |-> requested, max |-> max]
\* the payload is GraphError::to_string(): the message of the variant with
\* the two names of a MissingDependency written into it
GraphErrorToString(e) ==
    IF e.kind = "MissingDependency"
    THEN <<"missing dependency: skill '", e.skill, "' depends on '", e.missing, "'">>
    ELSE IF e.kind = "CycleDetected" THEN <<"cycle detected in skill graph">>
    ELSE <<e.kind>>
CompileGraphError(e) == [kind |-> "GraphError", message |-> GraphErrorToString(e)]

\* unwrap_or that never takes the option's value
UnwrapOrIgnored(opt, default) == default

\* Option::unwrap_or
UnwrapOr(opt, default) == IF opt.some THEN opt.value ELSE default

\* Iterator::filter over a Vec, order kept
RECURSIVE FilterDeps(_, _)
FilterDeps(deps, skill_id) ==
    IF deps = <<>> THEN <<>>
    ELSE IF Head(deps).skill_id = skill_id
    THEN <<DependencySpec(Head(deps).depends_on, Head(deps).fields)>>
            \o FilterDeps(Tail(deps), skill_id)
    ELSE FilterDeps(Tail(deps), skill_id)

\* build_graph's nodes if dependencies on unselected skills were dropped
GraphNodesDropMissing(config) ==
    [i \in 1..Len(config.selected_skills) |->
        SkillNode(config.selected_skills[i],
                  SelectSeq(FilterDeps(config.skill_dependencies, config.selected_skills[i]),
                            LAMBDA d : Contains(config.selected_skills, d.source_skill)))]

\* the nodes build_graph makes: one per selected skill, in selection order
GraphNodes(config) ==
    [i \in 1..Len(config.selected_skills) |->
        SkillNode(config.selected_skills[i],
                  FilterDeps(config.skill_dependencies, config.selected_skills[i]))]

\* build_graph without the call of validate
BuildGraphUnvalidated(config, template) == Ok(GraphNodes(config))

\* AgentCompiler::build_graph
BuildGraph(config, template) ==
    LET nodes == GraphNodes(config)
        v == Validate(nodes)
    IN IF v.ok THEN Ok(nodes) ELSE Err(CompileGraphError(v.error))

\* slice.iter().find(|s| s.id == id): the first match
FindSkill(skill_defs, id) ==
    IF \E i \in 1..Len(skill_defs) : skill_defs[i].id = id
    THEN Some(skill_defs[CHOOSE i \in 1..Len(skill_defs) :
                           /\ skill_defs[i].id = id
                           /\ \A j \in 1..(i - 1) : skill_defs[j].id # id])
    ELSE None

\* a loop that returned at the last failing element instead of the first
LastFailing(failed) ==
    IF \E i \in 1..Len(failed) : failed[i]
    THEN CHOOSE i \in 1..Len(failed) : failed[i] /\ \A j \in (i + 1)..Len(failed) : ~failed[j]
    ELSE 0

\* a `for` loop that returns at the first element failing its test
\* (lines 65-72 and 75-81): the index of that element, 0 when none fails
FirstFailing(failed) ==
    IF \E i \in 1..Len(failed) : failed[i]
    THEN CHOOSE i \in 1..Len(failed) : failed[i] /\ \A j \in 1..(i - 1) : ~failed[j]
    ELSE 0

\* compile with the budget test `>=` in place of `>`
EffectiveBudgetTooLargeStrict(effective_budget, max_budget) == effective_budget >= max_budget

\* line 85: effective_budget > template.max_budget
EffectiveBudgetTooLarge(effective_budget, max_budget) == effective_budget > max_budget

\* AgentCompiler::compile
Compile(config, registry, skill_defs) ==
    LET t == RegistryGet(registry, config.base_template) IN
    IF ~t.some THEN Err(TemplateNotFound(config.base_template)) ELSE
    LET template == t.value
        sel == config.selected_skills
        na == FirstFailing([i \in 1..Len(sel) |-> ~Contains(template.allowed_skills, sel[i])])
        un == FirstFailing([i \in 1..Len(sel) |-> ~FindSkill(skill_defs, sel[i]).some])
        effective_budget == UnwrapOr(config.budget_limit, template.max_budget)
        memory_tier == UnwrapOr(config.memory_tier_override, template.default_memory_tier)
        g == BuildGraph(config, template)
    IN IF na # 0 THEN Err(SkillNotAllowed(config.selected_skills[na], template.id))
       ELSE IF un # 0 THEN Err(UnknownSkill(config.selected_skills[un]))
       ELSE IF EffectiveBudgetTooLarge(effective_budget, template.max_budget)
       THEN Err(BudgetExceeded(effective_budget, template.max_budget))
       ELSE IF ~g.ok THEN g
       ELSE Ok([name |-> config.name,
                template_id |-> template.id,
                system_instruction |-> template.system_instruction,
                response_mode |-> template.response_mode,
                memory_tier |-> memory_tier,
                budget |-> effective_budget,
                skills |-> [i \in 1..Len(config.selected_skills) |->
                              FindSkill(skill_defs, config.selected_skills[i]).value],
                graph |-> g.value])

---------------------------------------------------------------------------
(* u32 arithmetic. The model's words have U32Bits bits: every sum below is *)
(* taken modulo 2^U32Bits, as the code's are modulo 2^32.                  *)

\* width of the model's unsigned words
U32Bits == 16

U32Modulus == 2 ^ U32Bits
U32Max == U32Modulus - 1

\* `x as u32` of a usize
AsU32(x) == x % U32Modulus

\* u32::wrapping_sub
WrappingSub(a, b) == (a + U32Modulus - b) % U32Modulus

\* u32::saturating_sub
SaturatingSub(a, b) == IF a > b THEN a - b ELSE 0

\* the sum of a tuple of naturals, in the integers
RECURSIVE SumSeq(_)
SumSeq(xs) == IF xs = <<>> THEN 0 ELSE Head(xs) + SumSeq(Tail(xs))

\* a + b + ... in u32, left to right: `overflow` says that a partial sum
\* left the range, `value` is what wrapping arithmetic gives
RECURSIVE U32Sum(_)
U32Sum(xs) ==
    IF xs = <<>> THEN [value |-> 0, overflow |-> FALSE]
    ELSE LET front == U32Sum(SubSeq(xs, 1, Len(xs) - 1))
             s == front.value + xs[Len(xs)]
         IN [value |-> s % U32Modulus, overflow |-> front.overflow \/ s >= U32Modulus]

\* "attempt to add with overflow": what an overflowing sum does when the
\* build has overflow checks on
OverflowPanic == [kind |-> "panic: attempt to add with overflow"]

---------------------------------------------------------------------------
(* skill.rs: JsonSchema::validate, JsonSchema::strip_unknown_fields *)

MissingField(field) == [kind |-> "MissingField", field |-> field]
UnknownField(field) == [kind |-> "UnknownField", field |-> field]
TypeMismatch == [kind |-> "TypeMismatch", message |-> "expected object"]

\* Map::get(key).is_some() on the schema object
HasArray(obj, key) == key \in DOMAIN obj /\ obj[key].kind = "array"
HasObject(obj, key) == key \in DOMAIN obj /\ obj[key].kind = "object"

\* the names in `required`, entries that are not strings left out
RECURSIVE RequiredNames(_)
RequiredNames(req_arr) ==
    IF req_arr = <<>> THEN <<>>
    ELSE (IF Head(req_arr).kind = "string" THEN <<Head(req_arr).s>> ELSE <<>>)
            \o RequiredNames(Tail(req_arr))

\* the least key of a non-empty set of strings: Map::keys() iterates in
\* ascending key order
MinKey(keys) == CHOOSE k \in keys : \A o \in keys : o = k \/ StrLess(k, o)

\* a validate that accepts every value
ValidateAccepting(schema, value) == Ok(<<>>)

\* a validate that looks for undeclared keys before missing fields
ValidateUnknownFirst(schema, value) ==
    IF ~IsObject(schema.schema) THEN Ok(<<>>) ELSE
    LET obj_schema == schema.schema.fields
        req == IF HasArray(obj_schema, s_required)
               THEN RequiredNames(obj_schema[s_required].items) ELSE <<>>
        absent == {i \in 1..Len(req) : IsObject(value) /\ req[i] \notin DOMAIN value.fields}
        undeclared == IF HasObject(obj_schema, s_properties) /\ IsObject(value)
                      THEN DOMAIN value.fields \ DOMAIN obj_schema[s_properties].fields
                      ELSE {}
    IN IF HasArray(obj_schema, s_required) /\ ~IsObject(value) THEN Err(TypeMismatch)
       ELSE IF undeclared # {} THEN Err(UnknownField(MinKey(undeclared)))
       ELSE IF absent # {}
       THEN Err(MissingField(req[CHOOSE i \in absent : \A o \in absent : i <= o]))
       ELSE Ok(<<>>)

\* JsonSchema::validate
SchemaValidate(schema, value) ==
    IF ~IsObject(schema.schema) THEN Ok(<<>>) ELSE
    LET obj_schema == schema.schema.fields
        req == IF HasArray(obj_schema, s_required)
               THEN RequiredNames(obj_schema[s_required].items) ELSE <<>>
        absent == {i \in 1..Len(req) : IsObject(value) /\ req[i] \notin DOMAIN value.fields}
        undeclared == IF HasObject(obj_schema, s_properties) /\ IsObject(value)
                      THEN DOMAIN value.fields \ DOMAIN obj_schema[s_properties].fields
                      ELSE {}
    IN IF HasArray(obj_schema, s_required) /\ ~IsObject(value) THEN Err(TypeMismatch)
       ELSE IF absent # {}
       THEN Err(MissingField(req[CHOOSE i \in absent : \A o \in absent : i <= o]))
       ELSE IF undeclared # {} THEN Err(UnknownField(MinKey(undeclared)))
       ELSE Ok(<<>>)

\* a strip_unknown_fields that removes nothing
StripNothing(schema, value) == value

\* JsonSchema::strip_unknown_fields
StripUnknownFields(schema, value) ==
    IF /\ IsObject(schema.schema)
       /\ HasObject(schema.schema.fields, s_properties)
       /\ IsObject(value)
    THEN JObj(Restrict(value.fields, DOMAIN schema.schema.fields[s_properties].fields))
    ELSE value

---------------------------------------------------------------------------
(* memory.rs *)

MemoryEntry(key, value, tier) == [key |-> key, value |-> value, tier |-> tier]

\* str::len of the first k chars of s
PrefixBytes(s, k) == ByteLen(SubSeq(s, 1, k))

\* str::is_char_boundary: the start, the end, or the first byte of a char
IsCharBoundary(s, index) == \E k \in 0..Len(s) : PrefixBytes(s, k) = index

\* the `while end > 0 && !s.is_char_boundary(end)` loop (memory.rs 76-79)
RECURSIVE BoundaryAtOrBelow(_, _)
BoundaryAtOrBelow(s, end) ==
    IF end > 0 /\ ~IsCharBoundary(s, end) THEN BoundaryAtOrBelow(s, end - 1) ELSE end

\* safe_truncate (and safe_truncate_string of token_optimizer.rs): s when
\* it fits, else &s[..end] for the boundary found by stepping back
SafeTruncate(s, max_bytes) ==
    IF ByteLen(s) <= max_bytes THEN s
    ELSE LET end == BoundaryAtOrBelow(s, max_bytes)
         IN SubSeq(s, 1, CHOOSE k \in 0..Len(s) : PrefixBytes(s, k) = end)

\* format!("{}:{}\n", entry.key, entry.value)
Segment(entry) == entry.key \o <<58>> \o entry.value \o <<10>>

\* the loop of select_and_trim without lines 55-59: the entry that does not
\* fit is dropped whole
RECURSIVE SelectWholeSegments(_, _, _)
SelectWholeSegments(entries, max_chars, result) ==
    IF entries = <<>> THEN result
    ELSE LET segment == Segment(Head(entries)) IN
         IF ByteLen(result) + ByteLen(segment) > max_chars
         THEN result
         ELSE SelectWholeSegments(Tail(entries), max_chars, result \o segment)

\* the `for entry in &self.entries` loop of select_and_trim
RECURSIVE SelectLoop(_, _, _)
SelectLoop(entries, max_chars, result) ==
    IF entries = <<>> THEN result
    ELSE LET segment == Segment(Head(entries)) IN
         IF ByteLen(result) + ByteLen(segment) > max_chars
         THEN result \o SafeTruncate(segment, SaturatingSub(max_chars, ByteLen(result)))
         ELSE SelectLoop(Tail(entries), max_chars, result \o segment)

\* MemoryManager::select_and_trim; the multiplication by 4 is in usize
SelectAndTrim(entries, tier, budget_tokens) ==
    IF tier = "None" \/ budget_tokens = 0 THEN <<>>
    ELSE LET effective_budget ==
                 CASE tier = "CompressedSummary" -> budget_tokens \div 4
                   [] tier = "Delta" -> budget_tokens \div 2
                   [] tier = "Full" -> budget_tokens
         IN SelectLoop(entries, effective_budget * 4, <<>>)

\* estimate_memory_tokens
EstimateMemoryTokens(text) == AsU32(ByteLen(text) \div 4)

---------------------------------------------------------------------------
(* token_optimizer.rs *)

\* estimate_tokens(s) for a string of that many bytes
EstimateTokens(len) == AsU32(len \div 4)

\* an entry(key) that installs the value it is given on every call
GetOrInsertLatest(cache, key, value) ==
    [k \in DOMAIN cache \cup {key} |-> IF k = key THEN value ELSE cache[k]]

\* AHashMap::entry(key).or_insert_with(|| value): StaticPromptCache::
\* get_or_compile and ToolSchemaCache::get_or_insert; the schema cache is
\* keyed by a hash of the skill id, taken here to be free of collisions
GetOrInsert(cache, key, value) ==
    IF key \in DOMAIN cache THEN cache
    ELSE [k \in DOMAIN cache \cup {key} |-> IF k = key THEN value ELSE cache[k]]

\* AHashMap::insert
MapInsert(map, key, value) ==
    [k \in DOMAIN map \cup {key} |-> IF k = key THEN value ELSE map[k]]

\* a store that kept the value a key already has
StoreKeepFirst(stored_outputs, node_id, output) == GetOrInsert(stored_outputs, node_id, output)

\* DeltaContextEngine::store
Store(stored_outputs, node_id, output) == MapInsert(stored_outputs, node_id, output)

\* the loop of compute_delta if an earlier entry for a source were kept
RECURSIVE ComputeDeltaLoopKeepFirst(_, _, _)
ComputeDeltaLoopKeepFirst(stored_outputs, deps, result) ==
    IF deps = <<>> THEN result
    ELSE LET node_id == Head(deps).source_skill
             fields == Head(deps).fields
             rest == Tail(deps)
         IN IF node_id \notin DOMAIN stored_outputs \/ node_id \in DOMAIN result
            THEN ComputeDeltaLoopKeepFirst(stored_outputs, rest, result)
            ELSE LET output == stored_outputs[node_id] IN
                 IF fields = <<>>
                 THEN ComputeDeltaLoopKeepFirst(stored_outputs, rest,
                                                MapInsert(result, node_id, output))
                 ELSE IF IsObject(output)
                 THEN ComputeDeltaLoopKeepFirst(stored_outputs, rest,
                          MapInsert(result, node_id,
                                    JObj(Restrict(output.fields, Range(fields)))))
                 ELSE ComputeDeltaLoopKeepFirst(stored_outputs, rest, result)

\* a projection that hands on the whole stored object
ExtractAll(obj, fields) == obj

\* lines 75-80: the named fields that the stored object has
Extract(obj, fields) == Restrict(obj, Range(fields))

\* the `for (node_id, fields) in deps` loop of compute_delta
RECURSIVE ComputeDeltaLoop(_, _, _)
ComputeDeltaLoop(stored_outputs, deps, result) ==
    IF deps = <<>> THEN result
    ELSE LET node_id == Head(deps).source_skill
             fields == Head(deps).fields
             rest == Tail(deps)
         IN IF node_id \notin DOMAIN stored_outputs
            THEN ComputeDeltaLoop(stored_outputs, rest, result)
            ELSE LET output == stored_outputs[node_id] IN
                 IF fields = <<>>
                 THEN ComputeDeltaLoop(stored_outputs, rest, MapInsert(result, node_id, output))
                 ELSE IF IsObject(output)
                 THEN ComputeDeltaLoop(stored_outputs, rest,
                          MapInsert(result, node_id, JObj(Extract(output.fields, fields))))
                 ELSE ComputeDeltaLoop(stored_outputs, rest, result)

\* DeltaContextEngine::compute_delta
ComputeDelta(stored_outputs, deps) == JObj(ComputeDeltaLoop(stored_outputs, deps, EmptyMap))

\* SemanticCompressor::new
SemanticCompressor(max_string_len) ==
    [max_string_len |-> max_string_len, key_mapping |-> [k \in {} |-> <<>>]]

\* SemanticCompressor::add_key_mapping
AddKeyMapping(compressor, from, to) ==
    [compressor EXCEPT !.key_mapping =
        [k \in DOMAIN @ \cup {from} |-> IF k = from THEN to ELSE @[k]]]

\* self.key_mapping.get(k).cloned().unwrap_or_else(|| k.clone())
MappedKey(compressor, k) ==
    IF k \in DOMAIN compressor.key_mapping THEN compressor.key_mapping[k] ELSE k

\* the String arm of compress
CompressString(compressor, value) ==
    IF ByteLen(value.s) > compressor.max_string_len
    THEN JStr(SafeTruncate(value.s, compressor.max_string_len))
    ELSE value

\* compress that gives up at an array: the items are cloned as they are
RECURSIVE CompressTopLevelArrays(_, _)
CompressTopLevelArrays(compressor, value) ==
    CASE value.kind = "object" ->
           JObj([k \in DOMAIN value.fields |->
                    CompressTopLevelArrays(compressor, value.fields[k])])
      [] value.kind = "string" -> CompressString(compressor, value)
      [] OTHER -> value

\* SemanticCompressor::compress. `for (k, v) in obj` visits the keys of a
\* serde_json map in ascending order and new_obj.insert replaces the value
\* an earlier key left under the same mapped key
RECURSIVE CompressObject(_, _, _, _)
RECURSIVE CompressValue(_, _)
CompressObject(compressor, obj, keys, new_obj) ==
    IF keys = <<>> THEN new_obj
    ELSE CompressObject(compressor, obj, Tail(keys),
             MapInsert(new_obj, MappedKey(compressor, Head(keys)),
                       CompressValue(compressor, obj[Head(keys)])))

CompressValue(compressor, value) ==
    CASE value.kind = "object" ->
           JObj(CompressObject(compressor, value.fields, SortedSet(DOMAIN value.fields),
                               EmptyMap))
      [] value.kind = "array" ->
           JArr([i \in 1..Len(value.items) |-> CompressValue(compressor, value.items[i])])
      [] value.kind = "string" -> CompressString(compressor, value)
      [] OTHER -> value

\* compress of the engine's compressor, which has no key mapping
Compress(max_string_len, value) == CompressValue(SemanticCompressor(max_string_len), value)

\* PredictiveEstimator::estimate_call: `total` is the wrapped sum and
\* `overflow` says that the sum left the u32 range
EstimateCall(prompt_tokens, context_tokens, memory_tokens, schema_tokens, max_response) ==
    LET sum == U32Sum(<<prompt_tokens, context_tokens, memory_tokens, schema_tokens,
                        max_response>>)
    IN [prompt |-> prompt_tokens, context |-> context_tokens, memory |-> memory_tokens,
        schema |-> schema_tokens, expected_response |-> max_response,
        total |-> sum.value, overflow |-> sum.overflow]

\* PredictiveEstimator::suggest_downgrades
SuggestDowngrades(est, budget) ==
    IF est.total <= budget THEN <<>>
    ELSE LET over == est.total - budget IN
         (IF est.memory > 0
          THEN <<[kind |-> "TrimMemory", target |-> SaturatingSub(est.memory, over)]>>
          ELSE <<>>)
         \o (IF est.context > over \div 2
             THEN <<[kind |-> "ReduceContext",
                     target |-> SaturatingSub(est.context, over \div 2)]>>
             ELSE <<>>)
         \o <<[kind |-> "DowngradeModel"]>>

TokenBreakdown(skill_id, model, prompt_tokens, context_tokens, memory_tokens, schema_tokens, response_tokens, total_tokens, cost) ==
    [skill_id |-> skill_id, model |-> model, prompt_tokens |-> prompt_tokens,
     context_tokens |-> context_tokens, memory_tokens |-> memory_tokens,
     schema_tokens |-> schema_tokens, response_tokens |-> response_tokens,
     total_tokens |-> total_tokens, cost |-> cost]

\* TokenTracker::new
NewTracker == [records |-> <<>>, total_cost |-> 0]

\* a tracker that drops what it is given
RecordNothing(self, breakdown) == self

\* TokenTracker::record
Record(self, breakdown) ==
    [records |-> Append(self.records, breakdown),
     total_cost |-> self.total_cost + breakdown.cost]

\* TokenTracker::total_tokens: Iterator::sum over u32
TotalTokens(self) ==
    U32Sum([i \in 1..Len(self.records) |-> self.records[i].total_tokens])

---------------------------------------------------------------------------
(* provider.rs *)

TokenUsage(prompt_tokens, completion_tokens, total_tokens) ==
    [prompt_tokens |-> prompt_tokens, completion_tokens |-> completion_tokens,
     total_tokens |-> total_tokens]

\* TokenUsage::default()
DefaultUsage == TokenUsage(0, 0, 0)

\* a ModelResponse; `content` is given by what serde_json::from_str makes
\* of it: Ok(value), or Err for text that is not JSON
ModelResponse(content, usage) == [content |-> content, usage |-> usage]

CallFailed == [kind |-> "CallFailed"]

\* the model names of select_model and the deterministic "local"
m_gpt4o == "gpt-4o"
m_gpt4o_mini == "gpt-4o-mini"
m_local == "local"

\* model_cost_per_1k, in units of 0.00001 dollars
ModelCostPer1k(model) ==
    CASE model = "gpt-4o" -> 500
      [] model = "gpt-4o-mini" -> 15
      [] model = "gpt-4-turbo" -> 1000
      [] model = "gpt-3.5-turbo" -> 50
      [] OTHER -> 500

---------------------------------------------------------------------------
(* skill_executor.rs *)

ProviderError(e) == [kind |-> "Provider", source |-> e]
SchemaViolation(e) == [kind |-> "SchemaViolation", source |-> e]
OutputTooLarge(actual, max) == [kind |-> "OutputTooLarge", actual |-> actual, max |-> max]
DeterministicError(skill_id) == [kind |-> "DeterministicError", skill |-> skill_id]
JsonParse == [kind |-> "JsonParse"]
FreeTextRejected == [kind |-> "FreeTextRejected"]

SkillExecResult(output, usage, cached) == [output |-> output, usage |-> usage, cached |-> cached]

\* SkillInputCache::input_hash(skill id, serialized input), taken to be free
\* of collisions; serialization is one-to-one on values, so the value
\* stands for its text
InputHash(skill_id, input) == <<skill_id, input>>

\* the deterministic handler the specifications register for skill "ab":
\* it answers {"results":["local"]} to every input
LocalHandler(input) == Ok(JObj(Entry(s_results, JArr(<<JStr(s_local)>>))))

\* a handler that echoes its input, and the error of one that always fails
EchoHandler(input) == Ok(input)
HandlerFailed == [kind |-> "DeterministicError", message |-> "handler failed"]

\* the closures the specifications register, by name
HandlerChoices == {"local", "echo", "failing"}

\* handler(input) (line 108)
HandlerApply(handler, input) ==
    CASE handler = "local" -> LocalHandler(input)
      [] handler = "echo" -> EchoHandler(input)
      [] handler = "failing" -> Err(HandlerFailed)

\* SkillExecutor::register_deterministic: AHashMap::insert, last write wins
RegisterDeterministic(executor, skill_id, handler) ==
    [executor EXCEPT !.deterministic_handlers =
        [k \in DOMAIN @ \cup {skill_id} |-> IF k = skill_id THEN handler ELSE @[k]]]

\* SkillExecutor::new() followed by register_deterministic("ab", handler)
NewExecutor ==
    RegisterDeterministic([cache |-> EmptyMap, deterministic_handlers |-> <<>>],
                          id_ab, "local")

\* a `?` that wrapped the handler's error in a DeterministicError
HandlerErrorWrapped(e) == [kind |-> "DeterministicError", source |-> e]

\* the `?` of `handler(input)?`: the handler's error type is SkillExecError
\* itself, From is the identity
HandlerError(e) == e

\* a reject_free_text that lets every value pass
RejectFreeTextNever(value) == Ok(<<>>)

\* reject_free_text
RejectFreeText(value) == IF value.kind = "string" THEN Err(FreeTextRejected) ELSE Ok(<<>>)

\* the loop of apply_compact_keys over the keys of val_obj in ascending order
RECURSIVE CompactLoop(_, _, _, _)
CompactLoop(map_obj, val_obj, keys, new_obj) ==
    IF keys = {} THEN new_obj
    ELSE LET k == MinKey(keys)
             short == IF k \in DOMAIN map_obj /\ map_obj[k].kind = "string"
                      THEN map_obj[k].s ELSE k
         IN CompactLoop(map_obj, val_obj, keys \ {k}, MapInsert(new_obj, short, val_obj[k]))

\* apply_compact_keys
ApplyCompactKeys(value, mapping) ==
    IF mapping = None THEN value
    ELSE IF IsObject(mapping.value) /\ IsObject(value)
    THEN JObj(CompactLoop(mapping.value.fields, value.fields, DOMAIN value.fields, EmptyMap))
    ELSE value

\* lines 97-124: the raw output and usage of the skill, `call` naming what
\* was invoked for it; `response` is what the provider answers if asked
RawOutput(executor, skill, input, response) ==
    IF skill.execution_mode = "Deterministic"
    THEN IF skill.id \notin DOMAIN executor.deterministic_handlers
         THEN [call |-> "none", handler_calls |-> <<>>,
               result |-> Err(DeterministicError(skill.id))]
         ELSE LET result == HandlerApply(executor.deterministic_handlers[skill.id], input)
              IN [call |-> "handler", handler_calls |-> <<input>>,
                  result |-> IF result.ok
                             THEN Ok([output |-> result.value, usage |-> DefaultUsage])
                             ELSE Err(HandlerError(result.error))]
    ELSE [call |-> "provider", handler_calls |-> <<>>,
          result |->
             IF ~response.ok THEN Err(ProviderError(response.error))
             ELSE IF ~response.value.content.ok THEN Err(JsonParse)
             ELSE IF ~RejectFreeText(response.value.content.value).ok
             THEN RejectFreeText(response.value.content.value)
             ELSE Ok([output |-> response.value.content.value,
                      usage |-> response.value.usage])]

\* an input cache that never finds an entry
CacheGetMiss(cache, hash) == None

\* SkillInputCache::get
CacheGet(cache, hash) == IF hash \in DOMAIN cache THEN Some(cache[hash]) ELSE None

\* an input cache that forgets what it is given
CacheInsertDropped(cache, hash, value) == cache

\* SkillInputCache::insert
CacheInsert(cache, hash, value) == MapInsert(cache, hash, value)

\* output_str.len() if both response modes serialized the output as it is
OutputStrLenUncompacted(output, skill, response_mode) == SerializedLen(output)

\* output_str.len() (lines 133-140)
OutputStrLen(output, skill, response_mode) ==
    IF response_mode = "StrictJson" THEN SerializedLen(output)
    ELSE SerializedLen(ApplyCompactKeys(output, skill.compact_keys))

\* lines 126-158 with the cache insert moved up, before the size check
FinishOutputCachedEarly(executor, skill, hash, response_mode, raw) ==
    LET output == StripUnknownFields(skill.output_schema, raw.output)
        valid == SchemaValidate(skill.output_schema, output)
        output_len == OutputStrLen(output, skill, response_mode)
        token_est == AsU32(output_len \div 4)
        stored == [executor EXCEPT !.cache = CacheInsert(@, hash, output)]
    IN IF ~valid.ok
       THEN [result |-> Err(SchemaViolation(valid.error)), executor |-> executor]
       ELSE IF skill.max_output_tokens > 0 /\ token_est > skill.max_output_tokens
       THEN [result |-> Err(OutputTooLarge(token_est, skill.max_output_tokens)),
             executor |-> stored]
       ELSE [result |-> Ok(SkillExecResult(output, raw.usage, FALSE)), executor |-> stored]

\* lines 126-158: strip, validate, size check, cache insert
FinishOutput(executor, skill, hash, response_mode, raw) ==
    LET output == StripUnknownFields(skill.output_schema, raw.output)
        valid == SchemaValidate(skill.output_schema, output)
        output_len == OutputStrLen(output, skill, response_mode)
        token_est == AsU32(output_len \div 4)
    IN IF ~valid.ok
       THEN [result |-> Err(SchemaViolation(valid.error)), executor |-> executor]
       ELSE IF skill.max_output_tokens > 0 /\ token_est > skill.max_output_tokens
       THEN [result |-> Err(OutputTooLarge(token_est, skill.max_output_tokens)),
             executor |-> executor]
       ELSE [result |-> Ok(SkillExecResult(output, raw.usage, FALSE)),
             executor |-> [executor EXCEPT !.cache = CacheInsert(@, hash, output)]]

\* an executor that looks for a cached output only after it has validated
\* the input
ExecutorExecuteValidatedFirst(executor, skill, input, response_mode, response) ==
    LET hash == InputHash(skill.id, input)
        valid == SchemaValidate(skill.input_schema, input)
        cached == CacheGet(executor.cache, hash)
    IN IF ~valid.ok
       THEN [result |-> Err(SchemaViolation(valid.error)),
             executor |-> executor, call |-> "none", handler_calls |-> <<>>,
             raw |-> None]
       ELSE IF cached.some
       THEN [result |-> Ok(SkillExecResult(cached.value, DefaultUsage, TRUE)),
             executor |-> executor, call |-> "none", handler_calls |-> <<>>,
             raw |-> None]
       ELSE LET raw == RawOutput(executor, skill, input, response) IN
            IF ~raw.result.ok
            THEN [result |-> raw.result, executor |-> executor, call |-> raw.call,
                  handler_calls |-> raw.handler_calls, raw |-> None]
            ELSE LET done == FinishOutput(executor, skill, hash, response_mode,
                                          raw.result.value)
                 IN [result |-> done.result, executor |-> done.executor,
                     call |-> raw.call, handler_calls |-> raw.handler_calls,
                     raw |-> Some(raw.result.value.output)]

\* SkillExecutor::execute: the result, the executor afterwards, and what
\* was invoked ("none", "handler" or "provider")
ExecutorExecute(executor, skill, input, response_mode, response) ==
    LET hash == InputHash(skill.id, input)
        valid == SchemaValidate(skill.input_schema, input)
        raw == RawOutput(executor, skill, input, response)
        done == FinishOutput(executor, skill, hash, response_mode, raw.result.value)
        cached == CacheGet(executor.cache, hash)
    IN IF cached.some
       THEN [result |-> Ok(SkillExecResult(cached.value, DefaultUsage, TRUE)),
             executor |-> executor, call |-> "none", handler_calls |-> <<>>,
             raw |-> None]
       ELSE IF ~valid.ok
       THEN [result |-> Err(SchemaViolation(valid.error)),
             executor |-> executor, call |-> "none", handler_calls |-> <<>>,
             raw |-> None]
       ELSE IF ~raw.result.ok
       THEN [result |-> raw.result, executor |-> executor, call |-> raw.call,
             handler_calls |-> raw.handler_calls, raw |-> None]
       ELSE [result |-> done.result, executor |-> done.executor, call |-> raw.call,
             handler_calls |-> raw.handler_calls, raw |-> Some(raw.result.value.output)]

---------------------------------------------------------------------------
(* execution_engine.rs *)

SkillError(e) == [kind |-> "SkillError", source |-> e]
ExecGraphError(e) == [kind |-> "GraphError", message |-> GraphErrorToString(e)]
BudgetExhausted(used, limit) == [kind |-> "BudgetExhausted", used |-> used, limit |-> limit]

\* SemanticCompressor::new(200)
CompressorMaxStringLen == 200

\* select_model: estimated_cost / max(budget_remaining, 1) > 0.5, both
\* numbers being exact in f64
SelectModel(remaining, estimated_cost) ==
    IF 2 * estimated_cost > (IF remaining > 1 THEN remaining ELSE 1)
    THEN m_gpt4o_mini ELSE m_gpt4o

\* the loop of flatten_delta if the first source to bring a key kept it
RECURSIVE FlattenLoopKeepFirst(_, _, _)
FlattenLoopKeepFirst(obj, sources, merged) ==
    IF sources = <<>> THEN merged
    ELSE FlattenLoopKeepFirst(obj, Tail(sources),
                              IF IsObject(obj[Head(sources)])
                              THEN Merge(obj[Head(sources)].fields, merged)
                              ELSE merged)

\* the loop of flatten_delta (lines 199-207) over the sources of the delta
\* in the order the map yields them: the fields of later sources
\* overwrite those of earlier ones
RECURSIVE FlattenLoop(_, _, _)
FlattenLoop(obj, sources, merged) ==
    IF sources = <<>> THEN merged
    ELSE FlattenLoop(obj, Tail(sources),
                     IF IsObject(obj[Head(sources)])
                     THEN Merge(merged, obj[Head(sources)].fields)
                     ELSE merged)

\* flatten_delta, `sources` being the keys of the delta in the order the
\* map yields them
FlattenDeltaIter(delta, sources) ==
    LET merged == IF IsObject(delta)
                  THEN FlattenLoop(delta.fields, sources, EmptyMap)
                  ELSE EmptyMap
    IN IF DOMAIN merged = {} THEN delta ELSE JObj(merged)

\* the keys of a serde_json map in ascending order, as the default
\* (BTreeMap) build of serde_json yields them
KeysAscending(value) == IF IsObject(value) THEN SortedSet(DOMAIN value.fields) ELSE <<>>

\* flatten_delta over a map that yields its keys in ascending order
FlattenDelta(delta) == FlattenDeltaIter(delta, KeysAscending(delta))

\* lines 121-125: {"input": "start"} for an empty delta
SkillInputIter(delta, sources) ==
    IF ~IsObject(delta) \/ DOMAIN delta.fields = {}
    THEN JObj(Entry(s_input, JStr(s_start)))
    ELSE FlattenDeltaIter(delta, sources)

\* lines 121-125 over a map that yields its keys in ascending order
SkillInput(delta) == SkillInputIter(delta, KeysAscending(delta))

\* lines 63-76: the dependencies of the first node with that id
NodeDeps(nodes, skill_id) ==
    IF \E i \in 1..Len(nodes) : nodes[i].skill_id = skill_id
    THEN nodes[CHOOSE i \in 1..Len(nodes) :
                 /\ nodes[i].skill_id = skill_id
                 /\ \A j \in 1..(i - 1) : nodes[j].skill_id # skill_id].dependencies
    ELSE <<>>

\* line 144: (usage_total / 1000) * model_cost_per_1k(model), in units of
\* 0.00000001 dollars
Cost(usage_total, model) == usage_total * ModelCostPer1k(model)

\* "context" / "previous research data": the memory of the tests (lines 300-305)
MemoryEntries ==
    <<MemoryEntry(<<99, 111, 110, 116, 101, 120, 116>>,
                  <<112, 114, 101, 118, 105, 111, 117, 115, 32, 114, 101, 115, 101, 97,
                    114, 99, 104, 32, 100, 97, 116, 97>>,
                  "Delta")>>

\* lines 78-101 with a prompt cache that takes the instruction of the
\* agent of this run for the prompt and stores it
EstimateWithOwnPrompt(agent, skill, stored_outputs, schemas, prompts, remaining) ==
    LET deps == NodeDeps(agent.graph, skill.id)
        delta == ComputeDelta(stored_outputs, deps)
        delta_tokens == EstimateTokens(SerializedLen(delta))
        mem_text == SelectAndTrim(MemoryEntries, agent.memory_tier, remaining \div 4)
        mem_tokens == EstimateMemoryTokens(mem_text)
        schemas2 == GetOrInsert(schemas, skill.id, skill.output_schema.schema)
        schema_tokens == EstimateTokens(SerializedLen(skill.output_schema.schema))
        prompts2 == MapInsert(prompts, skill.id, agent.system_instruction)
        cached_prompt == agent.system_instruction
        prompt_tokens == EstimateTokens(ByteLen(cached_prompt))
    IN [delta |-> delta, schema_cache |-> schemas2, prompt_cache |-> prompts2,
        cached_prompt |-> cached_prompt,
        est |-> EstimateCall(prompt_tokens, delta_tokens, mem_tokens, schema_tokens,
                             skill.max_output_tokens)]

\* lines 78-101 of one pass of the loop: what the pass computes before the
\* budget test, and the two caches after it
Estimate(agent, skill, stored_outputs, schemas, prompts, remaining) ==
    LET deps == NodeDeps(agent.graph, skill.id)
        delta == ComputeDelta(stored_outputs, deps)
        delta_tokens == EstimateTokens(SerializedLen(delta))
        mem_text == SelectAndTrim(MemoryEntries, agent.memory_tier, remaining \div 4)
        mem_tokens == EstimateMemoryTokens(mem_text)
        schemas2 == GetOrInsert(schemas, skill.id, skill.output_schema.schema)
        schema_tokens == EstimateTokens(SerializedLen(skill.output_schema.schema))
        prompts2 == GetOrInsert(prompts, skill.id, agent.system_instruction)
        cached_prompt == prompts2[skill.id]
        prompt_tokens == EstimateTokens(ByteLen(cached_prompt))
    IN [delta |-> delta, schema_cache |-> schemas2, prompt_cache |-> prompts2,
        cached_prompt |-> cached_prompt,
        est |-> EstimateCall(prompt_tokens, delta_tokens, mem_tokens, schema_tokens,
                             skill.max_output_tokens)]

\* a budget test that lets every skill run
BudgetTestOff(est, remaining, checks) == "run"

\* line 107: budget_remaining + budget_remaining / 4 in u32
Threshold(remaining) == U32Sum(<<remaining, remaining \div 4>>)

\* lines 95-113: "panic" when a sum overflows in a build with overflow
\* checks, "exhausted" when the wrapped estimate is over both limits, else "run"
BudgetTest(est, remaining, checks) ==
    IF est.overflow /\ checks THEN "panic"
    ELSE IF est.total > remaining
    THEN IF Threshold(remaining).overflow /\ checks THEN "panic"
         ELSE IF est.total > Threshold(remaining).value THEN "exhausted"
         ELSE "run"
    ELSE "run"

---------------------------------------------------------------------------
(* The execution engine as a state machine: execute() is ExecuteBegin, one *)
(* ExecuteSkill per pass of its loop, and ExecuteReturn                    *)

\* ExecutionEngine::new(executor) with a handler registered for "ab"
EngineFresh ==
    /\ skill_executor = NewExecutor
    /\ prompt_cache = EmptyMap
    /\ schema_cache = EmptyMap
    /\ delta_engine = EmptyMap
    /\ tracker = NewTracker
    /\ pc = "idle"
    /\ order = <<>>
    /\ position = 0
    /\ budget_remaining = 0
    /\ outputs = EmptyMap
    /\ execute_result = NotCalled
    /\ runs = 0
    /\ run_log = <<>>
    /\ stored_in = EmptyMap
    /\ run_start = NotCalled
    /\ calls = <<>>

\* the engine variables, in a specification that does not use them
EngineUnused ==
    /\ EngineFresh
    /\ overflow_checks = FALSE
    /\ max_runs = 0

\* {"results":[1],"summary":"p"} and {"extra":null,"results":[2],"summary":"q"}
content_1 == JObj(Merge(Entry(s_results, JArr(<<JNum(1)>>)), Entry(s_summary, JStr(<<112>>))))
content_2 ==
    JObj(Merge(Merge(Entry(s_results, JArr(<<JNum(2)>>)), Entry(s_summary, JStr(<<113>>))),
               Entry(s_extra, JNull)))

\* the usage of the tests' MockProvider, and one far above every budget
usage_mock == TokenUsage(50, 30, 80)
usage_large == TokenUsage(5000, 1000, 6000)

\* what a provider may answer to one call_model: a failure; text that is
\* not JSON; a bare JSON string; an object without the required field; the
\* two contents above
ProviderResponses ==
    {Err(CallFailed),
     Ok(ModelResponse(Err("not json"), usage_mock)),
     Ok(ModelResponse(Ok(JStr(<<112>>)), usage_mock)),
     Ok(ModelResponse(Ok(JObj(Entry(s_extra, JNull))), usage_mock)),
     Ok(ModelResponse(Ok(content_1), usage_mock)),
     Ok(ModelResponse(Ok(content_2), usage_mock)),
     Ok(ModelResponse(Ok(content_1), usage_large))}

\* the CompiledAgent execute is called with
Agent == compile_result.result.value

\* lines 49-55: topological order, budget_remaining = agent.budget
ExecuteBegin ==
    /\ pc = "idle"
    /\ compile_result.called
    /\ compile_result.result.ok
    /\ runs < max_runs
    /\ runs' = runs + 1
    /\ run_log' = <<>>
    /\ run_start' = [called |-> TRUE, config |-> user_config, agent |-> Agent,
                     tracker |-> tracker,
                     delta_engine |-> delta_engine, skill_executor |-> skill_executor]
    /\ LET t == TopologicalOrder(Agent.graph) IN
       IF t.ok
       THEN /\ pc' = "running"
            /\ order' = t.value
            /\ position' = 1
            /\ budget_remaining' = Agent.budget
            /\ outputs' = EmptyMap
            /\ execute_result' = NotCalled
       ELSE /\ execute_result' = [called |-> TRUE, result |-> Err(ExecGraphError(t.error))]
            /\ UNCHANGED <<pc, order, position, budget_remaining, outputs>>
    /\ UNCHANGED <<skill_executor, prompt_cache, schema_cache, delta_engine, tracker,
                   stored_in, calls, overflow_checks, max_runs, compile_vars, graph_vars>>

\* one line of run_log: what a pass of the loop saw and did
LogEntry(skill_id, outcome, deps, delta, est_total, predicted, call, usage_total, response, prompt) ==
    [skill_id |-> skill_id, outcome |-> outcome, deps |-> deps, delta |-> delta,
     est_total |-> est_total, predicted |-> predicted, call |-> call,
     usage_total |-> usage_total, response |-> response, prompt |-> prompt,
     budget |-> Agent.budget,
     budget_before |-> budget_remaining, outputs_before |-> outputs,
     stored_before |-> stored_in, executor_before |-> skill_executor,
     tracker_before |-> tracker]

\* execute returns Err(e) from inside the loop
ReturnErr(e) ==
    /\ pc' = "idle"
    /\ execute_result' = [called |-> TRUE, result |-> Err(e)]

\* lines 57-61: no definition for the id in agent.skills: `continue`
SkipPass(skill_id) ==
    /\ position' = position + 1
    /\ run_log' = Append(run_log, LogEntry(skill_id, "skipped", <<>>, JNull, 0, 0, "none", 0,
                                        Err(CallFailed), <<>>))
    /\ UNCHANGED <<pc, execute_result, skill_executor, prompt_cache, schema_cache,
                   delta_engine, tracker, budget_remaining, outputs, stored_in, calls>>

\* line 109: agent.budget - budget_remaining in u32
BudgetUsed(budget, remaining) ==
    [value |-> (budget + U32Modulus - remaining) % U32Modulus, overflow |-> remaining > budget]

\* lines 103-158 of one pass, given what lines 78-101 computed (e) and
\* what the provider answers if it is called (response)
FinishPass(skill, e, response) ==
    LET predicted == SumSeq(<<e.est.prompt, e.est.context, e.est.memory, e.est.schema,
                              e.est.expected_response>>)
        test == BudgetTest(e.est, budget_remaining, overflow_checks)
        used == BudgetUsed(Agent.budget, budget_remaining)
        model == IF IsDeterministic(skill) THEN m_local
                 ELSE SelectModel(budget_remaining, e.est.total)
        x == ExecutorExecute(skill_executor, skill, SkillInput(e.delta), Agent.response_mode,
                             response)
        result == x.result.value
        compressed == StripUnknownFields(skill.output_schema,
                                         Compress(CompressorMaxStringLen, result.output))
        usage_total == result.usage.total_tokens
        outcome == IF test = "panic" THEN "panic"
                   ELSE IF test = "exhausted"
                   THEN (IF used.overflow /\ overflow_checks THEN "panic" ELSE "exhausted")
                   ELSE IF ~x.result.ok THEN "skill_error"
                   ELSE "executed"
        ran == outcome \in {"skill_error", "executed"}
    IN /\ schema_cache' = e.schema_cache
       /\ prompt_cache' = e.prompt_cache
       /\ run_log' = Append(run_log,
                        LogEntry(skill.id, outcome, NodeDeps(Agent.graph, skill.id), e.delta,
                                 e.est.total, predicted,
                                 IF ran THEN x.call ELSE "none",
                                 IF outcome = "executed" THEN usage_total ELSE 0,
                                 response, e.cached_prompt))
       /\ calls' = IF skill.id \in DOMAIN calls THEN calls
                   ELSE [id \in DOMAIN calls \cup {skill.id} |->
                            IF id = skill.id THEN Agent.system_instruction ELSE calls[id]]
       /\ skill_executor' = IF ran THEN x.executor ELSE skill_executor
       /\ CASE outcome = "panic" ->
                 /\ pc' = "panicked"
                 /\ UNCHANGED execute_result
            [] outcome = "exhausted" ->
                 ReturnErr(BudgetExhausted(used.value, Agent.budget))
            [] outcome = "skill_error" ->
                 ReturnErr(SkillError(x.result.error))
            [] OTHER ->
                 UNCHANGED <<pc, execute_result>>
       /\ IF outcome = "executed"
          THEN /\ delta_engine' = Store(delta_engine, skill.id, compressed)
               /\ outputs' = MapInsert(outputs, skill.id, compressed)
               /\ tracker' = Record(tracker,
                                TokenBreakdown(skill.id, model, e.est.prompt, e.est.context,
                                               e.est.memory, e.est.schema,
                                               result.usage.completion_tokens, usage_total,
                                               Cost(usage_total, model)))
               /\ budget_remaining' = SaturatingSub(budget_remaining, usage_total)
               /\ stored_in' = MapInsert(stored_in, skill.id, runs)
               /\ position' = position + 1
          ELSE UNCHANGED <<delta_engine, outputs, tracker, budget_remaining, stored_in,
                           position>>

\* the provider is asked in this pass: the budget test lets the skill run
\* and the executor gets as far as call_model
ProviderAsked(skill, e) ==
    /\ BudgetTest(e.est, budget_remaining, overflow_checks) = "run"
    /\ ExecutorExecute(skill_executor, skill, SkillInput(e.delta), Agent.response_mode,
                       Err(CallFailed)).call = "provider"

\* lines 63-158: one pass of the loop for a skill that has a definition
RunPass(skill) ==
    LET e == Estimate(Agent, skill, delta_engine, schema_cache, prompt_cache, budget_remaining)
    IN \E response \in (IF ProviderAsked(skill, e) THEN ProviderResponses
                        ELSE {Err(CallFailed)}) :
          FinishPass(skill, e, response)

\* a loop over the order that ends after its first pass
LoopDoneEarly(o, p) == p > Len(o) \/ p > 1

\* line 57: `for skill_id in &order` has no element left
LoopDone(o, p) == p > Len(o)

\* one pass of `for skill_id in &order`
ExecuteSkill ==
    /\ pc = "running"
    /\ ~LoopDone(order, position)
    /\ LET found == FindSkill(Agent.skills, order[position]) IN
       IF found.some THEN RunPass(found.value) ELSE SkipPass(order[position])
    /\ UNCHANGED <<order, runs, run_start, overflow_checks, max_runs, compile_vars,
                   graph_vars>>

\* format!("{:.6}") of an amount given in 0.00000001 dollars: the amount in
\* 0.000001 dollars, rounded
Format6(cost) == (cost + 50) \div 100

\* TokenTracker::report: its first line, then one line per record
Report(self) ==
    [total_cost |-> Format6(self.total_cost), total_tokens |-> TotalTokens(self).value,
     lines |-> [i \in 1..Len(self.records) |->
                   [self.records[i] EXCEPT !.cost = Format6(@)]]]

\* lines 161-166, after the last pass of the loop
ExecuteReturn ==
    /\ pc = "running"
    /\ LoopDone(order, position)
    /\ IF TotalTokens(tracker).overflow /\ overflow_checks
       THEN /\ pc' = "panicked"
            /\ UNCHANGED execute_result
       ELSE /\ pc' = "idle"
            /\ execute_result' =
                 [called |-> TRUE,
                  result |-> Ok([outputs |-> outputs, report |-> Report(tracker),
                                 total_cost |-> tracker.total_cost,
                                 total_tokens |-> TotalTokens(tracker).value])]
    /\ UNCHANGED <<overflow_checks, max_runs, skill_executor, prompt_cache, schema_cache,
                   delta_engine, tracker, order, position, budget_remaining, outputs, runs,
                   run_log, stored_in, run_start, calls, compile_vars, graph_vars>>

---------------------------------------------------------------------------
(* SpecGraph: validate and topological_order applied to every graph of at  *)
(* most MaxNodes nodes over SkillIdSet with at most MaxEdges dependencies  *)

\* sum of the first i entries of a tuple of naturals
RECURSIVE PrefixSum(_, _)
PrefixSum(cnt, i) == IF i = 0 THEN 0 ELSE cnt[i] + PrefixSum(cnt, i - 1)

\* the node list with ids `ids`, node i having cnt[i] dependencies whose
\* sources are the next cnt[i] entries of `srcs`
GraphOf(ids, cnt, srcs) ==
    [i \in 1..Len(ids) |->
        SkillNode(ids[i],
                  [j \in 1..cnt[i] |->
                      DependencySpec(srcs[PrefixSum(cnt, i - 1) + j], <<>>)])]

\* the variables of the compiler, in a specification that does not use it
CompileUnused ==
    /\ user_config = NotCalled
    /\ skills = <<>>
    /\ compile_result = NotCalled

\* every graph of at most MaxNodes nodes and at most MaxEdges dependencies
GraphInit ==
    /\ \E n \in 0..MaxNodes :
       \E ids \in [1..n -> SkillIdSet] :
       \E cnt \in [1..n -> 0..MaxEdges] :
          /\ PrefixSum(cnt, n) <= MaxEdges
          /\ \E srcs \in [1..PrefixSum(cnt, n) -> SkillIdSet] :
                graph = GraphOf(ids, cnt, srcs)
    /\ validate_result = NotCalled
    /\ order_result = NotCalled
    /\ CompileUnused
    /\ EngineUnused

CallValidate ==
    /\ validate_result = NotCalled
    /\ validate_result' = [called |-> TRUE, result |-> Validate(graph)]
    /\ UNCHANGED <<graph, order_result, compile_vars, engine_vars>>

CallTopologicalOrder ==
    /\ order_result = NotCalled
    /\ \E collected \in IterationOrders(ZeroInDegree(graph)) :
          order_result' = [called |-> TRUE,
                           result |-> TopologicalOrderIter(graph, collected)]
    /\ UNCHANGED <<graph, validate_result, compile_vars, engine_vars>>

GraphNext == CallValidate \/ CallTopologicalOrder

SpecGraph == GraphInit /\ [][GraphNext]_vars

---------------------------------------------------------------------------
(* SpecOrder: topological_order called repeatedly on one graph, the hash  *)
(* map yielding its keys in any order at each call                        *)

MaxOrderCalls == 2

\* one line of `calls`: the iteration order met and the result returned
CallOrderAgain ==
    /\ Len(calls) < MaxOrderCalls
    /\ \E collected \in IterationOrders(ZeroInDegree(graph)) :
          calls' = Append(calls, [collected |-> collected,
                                  result |-> TopologicalOrderIter(graph, collected)])
    /\ UNCHANGED <<overflow_checks, max_runs, skill_executor, prompt_cache, schema_cache,
                   delta_engine, tracker, pc, order, position, budget_remaining, outputs,
                   execute_result, runs, run_log, stored_in, run_start, compile_vars,
                   graph_vars>>

SpecOrder == GraphInit /\ [][CallOrderAgain]_vars


---------------------------------------------------------------------------
(* The templates and skill definitions the specifications compile against *)

\* template ids "r" (research) and "t" (tiny); "x" is registered nowhere
tid_research == <<114>>
tid_tiny == <<116>>
tid_absent == <<120>>
tid_writer == <<119>>

\* "Research agent." and "Tiny."
instr_research == <<82, 101, 115, 101, 97, 114, 99, 104, 32, 97, 103, 101, 110, 116, 46>>
instr_tiny == <<84, 105, 110, 121, 46>>
instr_writer == <<87, 114, 105, 116, 101, 114, 46>>

\* the research template of the tests (agent_compiler.rs 153-161)
ResearchTemplate ==
    AgentTemplate(tid_research, <<id_a, id_ab, id_b>>, "Delta", "StrictJson", 5000,
                  instr_research)

\* the tiny template of tests::budget_exhaustion (execution_engine.rs 328-336),
\* allowing "a" and "ab" only
TinyTemplate ==
    AgentTemplate(tid_tiny, <<id_a, id_ab>>, "None", "StrictJson", 10, instr_tiny)

\* the research template under another id and with the instruction "Writer."
WriterTemplate ==
    AgentTemplate(tid_writer, <<id_a, id_ab, id_b>>, "Delta", "StrictJson", 5000, instr_writer)

\* TemplateRegistry after register(ResearchTemplate), register(TinyTemplate),
\* register(WriterTemplate)
Registry == [id \in {tid_research, tid_tiny, tid_writer} |->
                CASE id = tid_research -> ResearchTemplate
                  [] id = tid_tiny -> TinyTemplate
                  [] id = tid_writer -> WriterTemplate]

\* skill "a": the search skill of the tests, producing `results`
def_a ==
    SkillDefinition(id_a, ObjectSchema(<<>>, {s_input, s_summary}),
                    ObjectSchema(<<s_results>>, {s_results}), "LLM", 500)

\* skill "b": the summarize skill of the tests, producing `summary`
def_b ==
    SkillDefinition(id_b, ObjectSchema(<<>>, {s_input, s_results}),
                    ObjectSchema(<<s_summary>>, {s_summary}), "LLM", 300)

\* skill "ab": a deterministic skill
def_ab ==
    SkillDefinition(id_ab, ObjectSchema(<<>>, {s_input, s_results, s_summary}),
                    ObjectSchema(<<s_results>>, {s_results}), "Deterministic", 100)

AllSkillDefs == <<def_a, def_ab, def_b>>

---------------------------------------------------------------------------
(* SpecCompile: compile applied to every configuration of at most          *)
(* MaxSelected selected skills and MaxConfigDeps skill dependencies        *)

\* longest selected_skills list of a configuration under test
MaxSelected == 2
\* longest skill_dependencies list of a configuration under test
MaxConfigDeps == 2

SeqsUpTo(S, n) == UNION {[1..k -> S] : k \in 0..n}

\* dependencies under test: "b" on "a" with and without a field projection,
\* "a" on "b" (a cycle with the former), "ab" on itself, "b" on "ab"
DepChoices ==
    {SkillDep(id_b, id_a, <<>>), SkillDep(id_b, id_a, <<s_results>>),
     SkillDep(id_a, id_b, <<>>), SkillDep(id_ab, id_ab, <<>>), SkillDep(id_b, id_ab, <<>>)}

\* None; the tiny template's max_budget; one more than it; 450
BudgetLimits == {None, Some(10), Some(11), Some(450)}

\* the graph variables, in a specification that does not use them
GraphUnused ==
    /\ graph = <<>>
    /\ validate_result = NotCalled
    /\ order_result = NotCalled

CompileInit ==
    /\ \E t \in {tid_research, tid_tiny, tid_absent} :
       \E sel \in SeqsUpTo(SkillIdSet, MaxSelected) :
       \E tier \in {None, Some("Full")} :
       \E limit \in BudgetLimits :
       \E deps \in SeqsUpTo(DepChoices, MaxConfigDeps) :
          user_config = UserAgentConfig(t, sel, tier, limit, deps)
    /\ skills \in {AllSkillDefs, <<def_b, def_a>>, <<def_b>>}
    /\ compile_result = NotCalled
    /\ GraphUnused
    /\ EngineUnused

CallCompile ==
    /\ compile_result = NotCalled
    /\ pc = "idle"
    /\ compile_result' = [called |-> TRUE, result |-> Compile(user_config, Registry, skills)]
    /\ UNCHANGED <<user_config, skills, graph_vars, engine_vars>>

SpecCompile == CompileInit /\ [][CallCompile]_vars

---------------------------------------------------------------------------
(* SpecSelection: every graph of SpecGraph, validated and ordered, and     *)
(* compile applied to the configuration that selects its node ids in node  *)
(* order and lists its dependencies                                        *)

\* the configuration, over the research template, from which build_graph
\* makes the nodes of `nodes` (a node id listed twice gets the dependencies
\* of both of its nodes)
ConfigOf(nodes) ==
    UserAgentConfig(tid_research,
                    [i \in 1..Len(nodes) |-> nodes[i].skill_id],
                    None, None,
                    [k \in 1..Len(DepPairs(nodes)) |->
                        LET p == DepPairs(nodes)[k]
                        IN SkillDep(nodes[p[1]].skill_id,
                                    nodes[p[1]].dependencies[p[2]].source_skill,
                                    nodes[p[1]].dependencies[p[2]].fields)])

SelectionInit ==
    /\ \E n \in 0..MaxNodes :
       \E ids \in [1..n -> SkillIdSet] :
       \E cnt \in [1..n -> 0..MaxEdges] :
          /\ PrefixSum(cnt, n) <= MaxEdges
          /\ \E srcs \in [1..PrefixSum(cnt, n) -> SkillIdSet] :
                /\ graph = GraphOf(ids, cnt, srcs)
                /\ user_config = ConfigOf(GraphOf(ids, cnt, srcs))
    /\ skills = AllSkillDefs
    /\ compile_result = NotCalled
    /\ validate_result = NotCalled
    /\ order_result = NotCalled
    /\ EngineUnused

SelectionNext == CallValidate \/ CallTopologicalOrder \/ CallCompile

SpecSelection == SelectionInit /\ [][SelectionNext]_vars

---------------------------------------------------------------------------
(* SpecHandBuilt: execute on a fresh engine for a CompiledAgent that was   *)
(* not made by compile: its graph is any graph of at most MaxAgentNodes    *)
(* nodes and MaxAgentEdges dependencies, validated or not                  *)

MaxAgentNodes == 2
MaxAgentEdges == 2

\* a CompiledAgent written out field by field around the graph `nodes`,
\* with the definition of every node's skill
HandBuiltAgent(nodes) ==
    [name |-> <<>>,
     template_id |-> tid_research,
     system_instruction |-> instr_research,
     response_mode |-> "StrictJson",
     memory_tier |-> "Delta",
     budget |-> 5000,
     skills |-> [i \in 1..Len(nodes) |-> FindSkill(AllSkillDefs, nodes[i].skill_id).value],
     graph |-> nodes]

HandBuiltInit ==
    /\ \E n \in 0..MaxAgentNodes :
       \E ids \in [1..n -> SkillIdSet] :
       \E cnt \in [1..n -> 0..MaxAgentEdges] :
          /\ PrefixSum(cnt, n) <= MaxAgentEdges
          /\ \E srcs \in [1..PrefixSum(cnt, n) -> SkillIdSet] :
                /\ graph = GraphOf(ids, cnt, srcs)
                /\ user_config = ConfigOf(GraphOf(ids, cnt, srcs))
                /\ compile_result =
                      [called |-> TRUE, result |-> Ok(HandBuiltAgent(GraphOf(ids, cnt, srcs)))]
    /\ skills = AllSkillDefs
    /\ validate_result = NotCalled
    /\ order_result = NotCalled
    /\ overflow_checks \in BOOLEAN
    /\ max_runs = 1
    /\ EngineFresh

HandBuiltNext ==
    \/ CallTopologicalOrder
    \/ ExecuteBegin
    \/ ExecuteSkill
    \/ ExecuteReturn

SpecHandBuilt == HandBuiltInit /\ [][HandBuiltNext]_vars

---------------------------------------------------------------------------
(* SpecEngine: one execute on a fresh engine, for every configuration of   *)
(* the pool below. SpecReuse: up to MaxRuns executes on one engine, the    *)
(* caller changing the configuration between them.                         *)

\* execute calls on one engine in SpecReuse
MaxRuns == 2

\* skill "ab" with the largest max_output_tokens a u32 holds
def_ab_max ==
    SkillDefinition(id_ab, ObjectSchema(<<>>, {s_input, s_results, s_summary}),
                    ObjectSchema(<<s_results>>, {s_results}), "Deterministic", U32Max)

MaxSkillDefs == <<def_a, def_ab_max, def_b>>

\* skill "ab" declared to produce `summary`, which its handler does not
def_ab_summary ==
    SkillDefinition(id_ab, ObjectSchema(<<>>, {s_input, s_results, s_summary}),
                    ObjectSchema(<<s_summary>>, {s_summary}), "Deterministic", 100)

SummarySkillDefs == <<def_a, def_ab_summary, def_b>>

\* the configuration of the tests (execution_engine.rs 285-296): "b" takes
\* the results of "a"
config_test ==
    UserAgentConfig(tid_research, <<id_a, id_b>>, None, None,
                    <<SkillDep(id_b, id_a, <<s_results>>)>>)

\* the same skills with the dependency turned round
config_turned ==
    UserAgentConfig(tid_research, <<id_a, id_b>>, None, None, <<SkillDep(id_a, id_b, <<>>)>>)

\* "b" after the deterministic "ab", full memory, a budget of 450
config_local ==
    UserAgentConfig(tid_research, <<id_ab, id_b>>, Some("Full"), Some(450),
                    <<SkillDep(id_b, id_ab, <<>>)>>)

\* "a" after "ab": the input of "a" then has the field `results`, which
\* the input_schema of "a" does not declare
config_unfit ==
    UserAgentConfig(tid_research, <<id_ab, id_a>>, None, None, <<SkillDep(id_a, id_ab, <<>>)>>)

\* the configuration of the tests over the writer template
config_writer ==
    UserAgentConfig(tid_writer, <<id_a, id_b>>, None, None,
                    <<SkillDep(id_b, id_a, <<s_results>>)>>)

\* the configurations the caller of SpecReuse moves between
ReusePool == {config_test, config_turned, config_local, config_unfit, config_writer}

\* the caller builds another configuration for the engine it already has
Reconfigure ==
    /\ pc = "idle"
    /\ compile_result.called
    /\ runs >= 1
    /\ \E c \in ReusePool :
          /\ c # user_config
          /\ user_config' = c
    /\ compile_result' = NotCalled
    /\ UNCHANGED <<skills, engine_vars, graph_vars>>

EngineInit ==
    /\ \E t \in {tid_research, tid_tiny} :
       \E sel \in SeqsUpTo(SkillIdSet, MaxSelected) :
       \E tier \in {None, Some("Full")} :
       \E limit \in {None, Some(450)} :
       \E deps \in SeqsUpTo(DepChoices, 1) :
          user_config = UserAgentConfig(t, sel, tier, limit, deps)
    /\ skills \in {AllSkillDefs, MaxSkillDefs, SummarySkillDefs}
    /\ compile_result = NotCalled
    /\ overflow_checks \in BOOLEAN
    /\ max_runs = 1
    /\ EngineFresh
    /\ GraphUnused

ReuseInit ==
    /\ user_config \in ReusePool
    /\ skills \in {AllSkillDefs, MaxSkillDefs, SummarySkillDefs}
    /\ compile_result = NotCalled
    /\ overflow_checks \in BOOLEAN
    /\ max_runs = MaxRuns
    /\ EngineFresh
    /\ GraphUnused

EngineNext ==
    \/ CallCompile
    \/ Reconfigure
    \/ ExecuteBegin
    \/ ExecuteSkill
    \/ ExecuteReturn

SpecEngine == EngineInit /\ [][EngineNext]_vars

SpecReuse == ReuseInit /\ [][EngineNext]_vars

---------------------------------------------------------------------------
(* SpecExecutor: up to MaxCalls calls of SkillExecutor::execute on one     *)
(* executor, with a handler registered for "ab" only                       *)

\* execute calls on the executor under test
MaxCalls == 3

\* skill "a" with room for one output token
def_a_brief ==
    SkillDefinition(id_a, ObjectSchema(<<>>, {s_input, s_summary}),
                    ObjectSchema(<<s_results>>, {s_results}), "LLM", 1)

\* a deterministic skill "b", for which no handler is registered
def_b_local ==
    SkillDefinition(id_b, ObjectSchema(<<>>, {s_input, s_results}),
                    ObjectSchema(<<s_summary>>, {s_summary}), "Deterministic", 300)

\* a deterministic skill that also calls itself "a", requires `summary` in
\* its input and its output, and has no handler
def_a_local ==
    SkillDefinition(id_a, ObjectSchema(<<s_summary>>, {s_summary}),
                    ObjectSchema(<<s_summary>>, {s_summary}), "Deterministic", 1)

ExecutorSkills == {def_a, def_a_brief, def_a_local, def_ab, def_b_local}

\* {"input":"start"} and {"results":[1]}; "a" declares no field `results`
ExecutorInputs ==
    {JObj(Entry(s_input, JStr(s_start))), JObj(Entry(s_results, JArr(<<JNum(1)>>)))}

\* one line of `calls`: a call of SkillExecutor::execute and what came of it
ExecuteCall(skill, input, response_mode, response, x) ==
    [skill |-> skill, input |-> input, response_mode |-> response_mode,
     response |-> response, result |-> x.result, call |-> x.call,
     handler_calls |-> x.handler_calls, raw |-> x.raw,
     executor_before |-> skill_executor, executor_after |-> x.executor]

\* SkillExecutor::execute(skill, input, response_mode, provider, ..)
CallExecute ==
    /\ Len(calls) < MaxCalls
    /\ \E skill \in ExecutorSkills :
       \E input \in ExecutorInputs :
       \E response_mode \in {"StrictJson", "CompactJson"} :
       \E response \in (IF ExecutorExecute(skill_executor, skill, input, response_mode,
                                            Err(CallFailed)).call = "provider"
                         THEN ProviderResponses ELSE {Err(CallFailed)}) :
          LET x == ExecutorExecute(skill_executor, skill, input, response_mode, response)
          IN /\ skill_executor' = x.executor
             /\ calls' = Append(calls, ExecuteCall(skill, input, response_mode, response, x))
    /\ UNCHANGED <<overflow_checks, max_runs, prompt_cache, schema_cache, delta_engine,
                   tracker, pc, order, position, budget_remaining, outputs, execute_result,
                   runs, run_log, stored_in, run_start, compile_vars, graph_vars>>

ExecutorInit ==
    /\ EngineUnused
    /\ CompileUnused
    /\ GraphUnused

SpecExecutor == ExecutorInit /\ [][CallExecute]_vars

---------------------------------------------------------------------------
(* SpecHandlers: handlers registered on one executor, then up to MaxCalls  *)
(* calls of execute for skills with and without a compact_keys mapping     *)

\* skill "ab" with compact_keys {"results": "local"} (a shorter key) and
\* room for four output tokens
def_ab_short ==
    [def_ab EXCEPT !.compact_keys = Some(JObj(Entry(s_results, JStr(s_local)))),
                   !.max_output_tokens = 4]

\* skill "ab" with compact_keys {"results": "properties"} (a longer key)
\* and room for five output tokens
def_ab_long ==
    [def_ab EXCEPT !.compact_keys = Some(JObj(Entry(s_results, JStr(s_properties)))),
                   !.max_output_tokens = 5]

\* skill "ab" with the same mapping and no limit (max_output_tokens = 0)
def_ab_unlimited == [def_ab_long EXCEPT !.max_output_tokens = 0]

HandlerSkills == {def_ab, def_ab_short, def_ab_long, def_ab_unlimited, def_b_local}

\* register_deterministic(skill_id, handler), before the first execute
CallRegisterDeterministic ==
    /\ calls = <<>>
    /\ \E skill_id \in {id_ab, id_b} : \E handler \in HandlerChoices :
          skill_executor' = RegisterDeterministic(skill_executor, skill_id, handler)
    /\ UNCHANGED <<overflow_checks, max_runs, prompt_cache, schema_cache, delta_engine,
                   tracker, pc, order, position, budget_remaining, outputs, execute_result,
                   runs, run_log, stored_in, run_start, calls, compile_vars, graph_vars>>

\* SkillExecutor::execute for a deterministic skill; the provider is not
\* asked
CallExecuteDeterministic ==
    /\ Len(calls) < MaxCalls
    /\ \E skill \in HandlerSkills :
       \E input \in ExecutorInputs :
       \E response_mode \in {"StrictJson", "CompactJson"} :
          LET x == ExecutorExecute(skill_executor, skill, input, response_mode,
                                   Err(CallFailed))
          IN /\ skill_executor' = x.executor
             /\ calls' = Append(calls, ExecuteCall(skill, input, response_mode,
                                                   Err(CallFailed), x))
    /\ UNCHANGED <<overflow_checks, max_runs, prompt_cache, schema_cache, delta_engine,
                   tracker, pc, order, position, budget_remaining, outputs, execute_result,
                   runs, run_log, stored_in, run_start, compile_vars, graph_vars>>

HandlersNext == CallRegisterDeterministic \/ CallExecuteDeterministic

SpecHandlers == ExecutorInit /\ [][HandlersNext]_vars

---------------------------------------------------------------------------
(* SpecSchema: strip_unknown_fields, then validate, applied to one value   *)
(* under one descriptor                                                    *)

\* what a descriptor has under "required": nothing; []; ["results"];
\* ["results","summary"]; ["summary","results"]; [1,"summary"]; the string
\* "results"
RequiredChoices ==
    {None, Some(JArr(<<>>)), Some(JArr(<<JStr(s_results)>>)),
     Some(JArr(<<JStr(s_results), JStr(s_summary)>>)),
     Some(JArr(<<JStr(s_summary), JStr(s_results)>>)),
     Some(JArr(<<JNum(1), JStr(s_summary)>>)), Some(JStr(s_results))}

\* a "properties" object declaring those names
PropertiesOf(names) == JObj([p \in names |-> JObj(Entry(s_type, JStr(s_object)))])

\* what a descriptor has under "properties": nothing; {}; three objects;
\* null
PropertiesChoices ==
    {None, Some(PropertiesOf({})), Some(PropertiesOf({s_results})),
     Some(PropertiesOf({s_summary})), Some(PropertiesOf({s_results, s_summary})),
     Some(JNull)}

\* the descriptors under test, one of them not an object
SchemaChoices ==
    {JsonSchema(JObj(Merge(IF r = None THEN EmptyMap ELSE Entry(s_required, r.value),
                           IF p = None THEN EmptyMap ELSE Entry(s_properties, p.value)))) :
        r \in RequiredChoices, p \in PropertiesChoices}
    \cup {JsonSchema(JNull)}

\* an object with those keys
ObjectWith(keys) == JObj([k \in keys |-> JNum(1)])

\* the values under test: four that are no object, and the objects over
\* the keys "results", "summary" and "extra"
ValueChoices ==
    {JNull, JNum(1), JStr(s_results), JArr(<<JStr(s_results)>>)}
    \cup {ObjectWith(keys) : keys \in SUBSET {s_results, s_summary, s_extra}}

\* lines 126-131 of skill_executor.rs on one value: strip_unknown_fields
\* changes the value in place, validate then sees the stripped value
CallStripValidate ==
    /\ calls = <<>>
    /\ \E schema \in SchemaChoices : \E value \in ValueChoices :
          LET stripped == StripUnknownFields(schema, value) IN
          calls' = <<[schema |-> schema, value |-> value, stripped |-> stripped,
                      result |-> SchemaValidate(schema, stripped)]>>
    /\ UNCHANGED <<overflow_checks, max_runs, skill_executor, prompt_cache, schema_cache,
                   delta_engine, tracker, pc, order, position, budget_remaining, outputs,
                   execute_result, runs, run_log, stored_in, run_start, compile_vars,
                   graph_vars>>

SpecSchema == ExecutorInit /\ [][CallStripValidate]_vars

---------------------------------------------------------------------------
(* SpecValidate: validate applied to one value under one descriptor, the   *)
(* value not stripped before                                               *)

CallSchemaValidate ==
    /\ calls = <<>>
    /\ \E schema \in SchemaChoices : \E value \in ValueChoices :
          calls' = <<[schema |-> schema, value |-> value,
                      result |-> SchemaValidate(schema, value)]>>
    /\ UNCHANGED <<overflow_checks, max_runs, skill_executor, prompt_cache, schema_cache,
                   delta_engine, tracker, pc, order, position, budget_remaining, outputs,
                   execute_result, runs, run_log, stored_in, run_start, compile_vars,
                   graph_vars>>

SpecValidate == ExecutorInit /\ [][CallSchemaValidate]_vars

---------------------------------------------------------------------------
(* SpecMemory: select_and_trim applied to a memory pool of at most        *)
(* MaxMemoryEntries entries under every tier and a budget of at most      *)
(* MaxBudgetTokens tokens                                                 *)

MaxMemoryEntries == 2
MaxBudgetTokens == 5

\* the keys "k" and ""; the values "", "xy", U+20AC (3 bytes) and
\* U+00E9 U+1F600 (2 and 4 bytes)
MemoryKeys == {<<107>>, <<>>}
MemoryValues == {<<>>, <<120, 121>>, <<8364>>, <<233, 128512>>}

MemoryTiers == {"None", "CompressedSummary", "Delta", "Full"}

\* MemoryManager::new, then add() for each entry, then select_and_trim
CallSelectAndTrim ==
    /\ calls = <<>>
    /\ \E n \in 0..MaxMemoryEntries :
       \E keys \in [1..n -> MemoryKeys] :
       \E values \in [1..n -> MemoryValues] :
       \E tiers \in [1..n -> {"None", "Full"}] :
       \E tier \in MemoryTiers :
       \E budget_tokens \in 0..MaxBudgetTokens :
          LET entries == [i \in 1..n |-> MemoryEntry(keys[i], values[i], tiers[i])]
          IN calls' = <<[entries |-> entries, tier |-> tier,
                         budget_tokens |-> budget_tokens,
                         result |-> SelectAndTrim(entries, tier, budget_tokens)]>>
    /\ UNCHANGED <<overflow_checks, max_runs, skill_executor, prompt_cache, schema_cache,
                   delta_engine, tracker, pc, order, position, budget_remaining, outputs,
                   execute_result, runs, run_log, stored_in, run_start, compile_vars,
                   graph_vars>>

SpecMemory == ExecutorInit /\ [][CallSelectAndTrim]_vars

---------------------------------------------------------------------------
(* SpecEstimator: suggest_downgrades applied to one estimate and budget;   *)
(* TokenEstimate has public fields, so `total` need not be their sum       *)

\* the values of memory, context, total and budget under test
EstimateValues == {0, 1, 2, 3, 5, U32Max}

CallSuggestDowngrades ==
    /\ calls = <<>>
    /\ \E memory \in EstimateValues : \E context \in EstimateValues :
       \E total \in EstimateValues : \E budget \in EstimateValues :
          LET est == [prompt |-> 0, context |-> context, memory |-> memory, schema |-> 0,
                      expected_response |-> 0, total |-> total, overflow |-> FALSE]
          IN calls' = <<[est |-> est, budget |-> budget,
                         result |-> SuggestDowngrades(est, budget)]>>
    /\ UNCHANGED <<overflow_checks, max_runs, skill_executor, prompt_cache, schema_cache,
                   delta_engine, tracker, pc, order, position, budget_remaining, outputs,
                   execute_result, runs, run_log, stored_in, run_start, compile_vars,
                   graph_vars>>

SpecEstimator == ExecutorInit /\ [][CallSuggestDowngrades]_vars

---------------------------------------------------------------------------
(* SpecFlatten: the input the engine makes of a delta, for every delta of  *)
(* at most MaxSources sources and every order in which the map of the      *)
(* delta may yield them (ascending in the default build of serde_json,     *)
(* insertion order in a preserve_order build)                              *)

MaxSources == 3

\* what compute_delta stores under a source: a value that is no object,
\* {}, {"results":[1]}, {"results":["local"]}, {"results":[1],"summary":"start"}
SourceValues ==
    {JNull, JObj(EmptyMap), JObj(Entry(s_results, JArr(<<JNum(1)>>))),
     JObj(Entry(s_results, JArr(<<JStr(s_local)>>))),
     JObj(Merge(Entry(s_results, JArr(<<JNum(1)>>)), Entry(s_summary, JStr(s_start))))}

CallSkillInput ==
    /\ calls = <<>>
    /\ \E ids \in SUBSET SkillIdSet :
          /\ Cardinality(ids) <= MaxSources
          /\ \E fields \in [ids -> SourceValues] :
             \E sources \in IterationOrders(ids) :
                calls' = <<[delta |-> JObj(fields), sources |-> sources,
                            input |-> SkillInputIter(JObj(fields), sources)]>>
    /\ UNCHANGED <<overflow_checks, max_runs, skill_executor, prompt_cache, schema_cache,
                   delta_engine, tracker, pc, order, position, budget_remaining, outputs,
                   execute_result, runs, run_log, stored_in, run_start, compile_vars,
                   graph_vars>>

SpecFlatten == ExecutorInit /\ [][CallSkillInput]_vars

---------------------------------------------------------------------------
(* SpecCompress: one SemanticCompressor, built by new and at most          *)
(* MaxKeyMappings calls of add_key_mapping, compresses a value and then    *)
(* its own result                                                          *)

MaxStringLen == 4
MaxKeyMappings == 2

\* the keys of the objects under test, and the targets of the mappings
CompressKeys == {id_a, id_b, id_ab}

\* "", "ab", "start", "hé", "日本", "a😀": chars of 1, 2, 3 and 4 bytes
CompressStrings ==
    {<<>>, id_ab, s_start, <<104, 233>>, <<26085, 26412>>, <<97, 128512>>}

CompressScalars == {JNull, JNum(1)} \cup {JStr(s) : s \in CompressStrings}

\* scalars, arrays and objects of them, and objects and arrays nested in
\* objects and arrays
CompressValues ==
    CompressScalars
    \cup {JArr(<<x, JNum(1)>>) : x \in CompressScalars}
    \cup {JObj(Entry(id_a, x)) : x \in CompressScalars}
    \cup {JObj(Merge(Entry(id_a, x), Entry(id_b, JStr(s_start)))) : x \in CompressScalars}
    \cup {JObj(Entry(id_b, JObj(Entry(id_a, x)))) : x \in CompressScalars}
    \cup {JObj(Entry(id_a, JArr(<<JObj(Entry(id_b, x)), x>>))) : x \in CompressScalars}
    \cup {JArr(<<JArr(<<x>>), JObj(Entry(id_ab, x))>>) : x \in CompressScalars}

\* the compressors that n calls of add_key_mapping make of `compressors`
RECURSIVE WithKeyMappings(_, _)
WithKeyMappings(compressors, n) ==
    IF n = 0 THEN compressors
    ELSE compressors \cup
         WithKeyMappings({AddKeyMapping(c, from, to) :
                             c \in compressors, from \in CompressKeys, to \in CompressKeys},
                         n - 1)

CallCompress ==
    /\ calls = <<>>
    /\ \E max_string_len \in 0..MaxStringLen :
       \E compressor \in WithKeyMappings({SemanticCompressor(max_string_len)},
                                         MaxKeyMappings) :
       \E value \in CompressValues :
          LET once == CompressValue(compressor, value)
          IN calls' = <<[compressor |-> compressor, value |-> value, result |-> once,
                         again |-> CompressValue(compressor, once)]>>
    /\ UNCHANGED <<overflow_checks, max_runs, skill_executor, prompt_cache, schema_cache,
                   delta_engine, tracker, pc, order, position, budget_remaining, outputs,
                   execute_result, runs, run_log, stored_in, run_start, compile_vars,
                   graph_vars>>

SpecCompress == ExecutorInit /\ [][CallCompress]_vars

---------------------------------------------------------------------------
(* SpecDelta: outputs stored in one DeltaContextEngine, then compute_delta *)
(* for every list of at most MaxDeltaDeps dependencies                     *)

MaxDeltaDeps == 2

\* stored outputs under test: 1, {}, {"results":[1],"summary":"start"}
StoredValues ==
    {JNum(1), JObj(EmptyMap),
     JObj(Merge(Entry(s_results, JArr(<<JNum(1)>>)), Entry(s_summary, JStr(s_start))))}

\* the fields lists of the dependencies under test
FieldsChoices == {<<>>, <<s_results>>, <<s_summary, s_extra>>, <<s_extra>>}

DeltaDepChoices ==
    {DependencySpec(src, fields) : src \in SkillIdSet, fields \in FieldsChoices}

\* DeltaContextEngine::store, for the nodes "a" and "ab"
CallStore ==
    /\ calls = <<>>
    /\ \E node_id \in {id_a, id_ab} : \E output \in StoredValues :
          delta_engine' = Store(delta_engine, node_id, output)
    /\ UNCHANGED <<overflow_checks, max_runs, skill_executor, prompt_cache, schema_cache,
                   tracker, pc, order, position, budget_remaining, outputs, execute_result,
                   runs, run_log, stored_in, run_start, calls, compile_vars, graph_vars>>

\* DeltaContextEngine::compute_delta(&self, deps)
CallComputeDelta ==
    /\ calls = <<>>
    /\ \E n \in 0..MaxDeltaDeps : \E deps \in [1..n -> DeltaDepChoices] :
          calls' = <<[stored_before |-> delta_engine, deps |-> deps,
                      result |-> ComputeDelta(delta_engine, deps)]>>
    /\ UNCHANGED <<overflow_checks, max_runs, skill_executor, prompt_cache, schema_cache,
                   delta_engine, tracker, pc, order, position, budget_remaining, outputs,
                   execute_result, runs, run_log, stored_in, run_start, compile_vars,
                   graph_vars>>

DeltaNext == CallStore \/ CallComputeDelta

SpecDelta == ExecutorInit /\ [][DeltaNext]_vars

---------------------------------------------------------------------------
(* SpecTracker: up to MaxRecords calls of TokenTracker::record on a new    *)
(* tracker, total_tokens() being read in between                           *)

\* record calls on the tracker under test
MaxRecords == 3

\* the usage.total_tokens of the records under test: none, the
\* MockProvider's, one above the research budget, and two near the top of
\* the u32 range
RecordTotals == {0, 80, 6000, U32Max - 6000, U32Max}

\* TokenTracker::record(breakdown)
CallRecord ==
    /\ Cardinality({i \in 1..Len(calls) : calls[i].op = "record"}) < MaxRecords
    /\ \E total \in RecordTotals :
          LET breakdown == TokenBreakdown(id_a, m_gpt4o, 3, 0, 0, 20, 30, total,
                                          Cost(total, m_gpt4o))
          IN /\ tracker' = Record(tracker, breakdown)
             /\ calls' = Append(calls, [op |-> "record", breakdown |-> breakdown])
    /\ UNCHANGED <<overflow_checks, max_runs, skill_executor, prompt_cache, schema_cache,
                   delta_engine, pc, order, position, budget_remaining, outputs,
                   execute_result, runs, run_log, stored_in, run_start, compile_vars,
                   graph_vars>>

\* TokenTracker::total_tokens(): the sum panics on overflow in a build with
\* overflow checks and wraps in one without
CallTotalTokens ==
    /\ calls # <<>>
    /\ calls[Len(calls)].op = "record"
    /\ LET sum == TotalTokens(tracker) IN
       calls' = Append(calls, [op |-> "total_tokens",
                               result |-> IF sum.overflow /\ overflow_checks
                                          THEN Err(OverflowPanic) ELSE Ok(sum.value)])
    /\ UNCHANGED <<overflow_checks, max_runs, skill_executor, prompt_cache, schema_cache,
                   delta_engine, tracker, pc, order, position, budget_remaining, outputs,
                   execute_result, runs, run_log, stored_in, run_start, compile_vars,
                   graph_vars>>

TrackerInit ==
    /\ EngineFresh
    /\ overflow_checks \in BOOLEAN
    /\ max_runs = 0
    /\ CompileUnused
    /\ GraphUnused

TrackerNext == CallRecord \/ CallTotalTokens

SpecTracker == TrackerInit /\ [][TrackerNext]_vars

---------------------------------------------------------------------------
(* SpecPromptCache: up to MaxCalls calls of get_or_compile on a new        *)
(* StaticPromptCache. An Arc<str> is a pair of the allocation it points to *)
(* and its text; the n-th call allocates, if it does, allocation n.        *)

\* StaticPromptCache::get_or_compile(key, raw)
CallGetOrCompile ==
    /\ Len(calls) < MaxCalls
    /\ \E key \in {id_a, id_b} : \E raw \in {instr_research, instr_tiny, <<>>} :
          LET installed == GetOrInsert(prompt_cache, key,
                                       [ptr |-> Len(calls) + 1, text |-> raw])
          IN /\ prompt_cache' = installed
             /\ calls' = Append(calls, [key |-> key, raw |-> raw,
                                        returned |-> installed[key],
                                        cache_before |-> prompt_cache,
                                        cache_after |-> installed])
    /\ UNCHANGED <<overflow_checks, max_runs, skill_executor, schema_cache, delta_engine,
                   tracker, pc, order, position, budget_remaining, outputs, execute_result,
                   runs, run_log, stored_in, run_start, compile_vars, graph_vars>>

SpecPromptCache == ExecutorInit /\ [][CallGetOrCompile]_vars

---------------------------------------------------------------------------
(* Claims about the skill graph (SpecGraph) *)

\* positions of a skill id in an emitted order
Positions(o, id) == {p \in 1..Len(o) : o[p] = id}

\* the dependency relation of a node list: <<source, dependant>> pairs
DepEdges(nodes) ==
    UNION {{<<nodes[i].dependencies[j].source_skill, nodes[i].skill_id>> :
              j \in 1..Len(nodes[i].dependencies)} : i \in 1..Len(nodes)}

\* ids reachable from the ids of S by one or more dependency edges
RECURSIVE ReachFrom(_, _, _)
ReachFrom(edges, S, seen) ==
    LET next == {e[2] : e \in {d \in edges : d[1] \in S}} \ seen
    IN IF next = {} THEN seen ELSE ReachFrom(edges, next, seen \cup next)

HasDirectedCycle(nodes) ==
    \E e \in DepEdges(nodes) : e[1] \in ReachFrom(DepEdges(nodes), {e[2]}, {e[2]})

AllSourcesExist(nodes) ==
    \A i \in 1..Len(nodes) : \A j \in 1..Len(nodes[i].dependencies) :
        nodes[i].dependencies[j].source_skill \in NodeIds(nodes)

\* C1: on every graph that validate() accepts, topological_order() returns
\* an order that holds every node's skill_id exactly once and places each
\* node after the source_skill of each of its dependencies.
C1_TopologicalCorrectness ==
    (validate_result.called /\ order_result.called /\ validate_result.result.ok) =>
        /\ order_result.result.ok
        /\ LET o == order_result.result.value IN
           /\ Len(o) = Len(graph)
           /\ \A i \in 1..Len(graph) :
                 /\ Cardinality(Positions(o, graph[i].skill_id)) = 1
                 /\ \A j \in 1..Len(graph[i].dependencies) :
                       \A p \in Positions(o, graph[i].skill_id) :
                         \E q \in Positions(o, graph[i].dependencies[j].source_skill) :
                           q < p

\* a valid graph of three nodes in which one node has two dependencies has
\* been validated and ordered
C1_Witness ==
    /\ validate_result.called /\ order_result.called
    /\ validate_result.result.ok
    /\ Len(graph) = 3
    /\ \E i \in 1..3 : Len(graph[i].dependencies) = 2
                       /\ graph[i].dependencies[1] # graph[i].dependencies[2]

\* C6: on a graph whose dependency relation has a directed cycle (a node
\* depending on itself included) topological_order() and validate() both
\* return an error, and that error is CycleDetected when every dependency
\* source exists.
C6_CycleRejection ==
    HasDirectedCycle(graph) =>
        /\ order_result.called =>
              /\ ~order_result.result.ok
              /\ AllSourcesExist(graph) => order_result.result.error = CycleDetected
        /\ validate_result.called =>
              /\ ~validate_result.result.ok
              /\ AllSourcesExist(graph) => validate_result.result.error = CycleDetected

\* both operations have answered on a graph with a cycle through two
\* nodes, every source of which exists
C6_Witness ==
    /\ validate_result.called /\ order_result.called
    /\ HasDirectedCycle(graph) /\ AllSourcesExist(graph)
    /\ \E i, j \in 1..Len(graph) :
          /\ graph[i].skill_id # graph[j].skill_id
          /\ <<graph[i].skill_id, graph[j].skill_id>> \in DepEdges(graph)
          /\ <<graph[j].skill_id, graph[i].skill_id>> \in DepEdges(graph)

\* the first dependency, in node order then dependency order, whose source
\* is no node
IsFirstMissing(nodes, i, j) ==
    /\ nodes[i].dependencies[j].source_skill \notin NodeIds(nodes)
    /\ \A i2 \in 1..Len(nodes) : \A j2 \in 1..Len(nodes[i2].dependencies) :
          (i2 < i \/ (i2 = i /\ j2 < j)) =>
              nodes[i2].dependencies[j2].source_skill \in NodeIds(nodes)

\* C7: validate() on a graph with a dependency whose source_skill is no
\* node returns MissingDependency{skill, missing} for the first such
\* dependency in node order then dependency order, also when the graph has
\* a cycle.
C7_MissingDependency ==
    validate_result.called =>
        \A i \in 1..Len(graph) : \A j \in 1..Len(graph[i].dependencies) :
            IsFirstMissing(graph, i, j) =>
                validate_result.result =
                    Err(MissingDependency(graph[i].skill_id,
                                          graph[i].dependencies[j].source_skill))

\* validate() has answered on a graph that has a cycle and two missing
\* dependencies with different sources
C7_Witness ==
    /\ validate_result.called
    /\ HasDirectedCycle(graph)
    /\ \E i, i2 \in 1..Len(graph) :
        \E j \in 1..Len(graph[i].dependencies) :
        \E j2 \in 1..Len(graph[i2].dependencies) :
          /\ IsFirstMissing(graph, i, j)
          /\ graph[i2].dependencies[j2].source_skill \notin NodeIds(graph)
          /\ graph[i2].dependencies[j2].source_skill
                # graph[i].dependencies[j].source_skill

\* position of a skill id in an emitted order that holds it once
PosOf(o, id) == CHOOSE p \in 1..Len(o) : o[p] = id

\* the dependency sources of the node `id`
SourcesOf(nodes, id) == {e[1] : e \in {d \in DepEdges(nodes) : d[2] = id}}

\* the nodes whose in-degree reaches zero when `pred` is processed: those
\* of whose sources `pred` is the one emitted last
ReleasedBy(nodes, o, pred) ==
    {id \in NodeIds(nodes) :
        /\ pred \in SourcesOf(nodes, id)
        /\ \A src \in SourcesOf(nodes, id) : PosOf(o, src) <= PosOf(o, pred)}

\* the nodes of S stand in `o` in ascending order of skill_id
AscendingIn(o, S) ==
    \A x, y \in S : StrLess(x, y) => PosOf(o, x) < PosOf(o, y)

\* the nodes released by one predecessor are emitted in ascending order
ReleasedAscending ==
    (order_result.called /\ order_result.result.ok) =>
        \A pred \in NodeIds(graph) :
            AscendingIn(order_result.result.value,
                        ReleasedBy(graph, order_result.result.value, pred))

\* C21: whenever several nodes are ready at the same time (the nodes
\* without dependencies at the start, or the nodes released by the same
\* predecessor), they are emitted in ascending order of skill_id.
C21_TieBreakAscending ==
    (order_result.called /\ order_result.result.ok) =>
        /\ AscendingIn(order_result.result.value, ZeroInDegree(graph))
        /\ \A pred \in NodeIds(graph) :
              AscendingIn(order_result.result.value,
                          ReleasedBy(graph, order_result.result.value, pred))

\* the graph of the two nodes "a" and "b", neither with a dependency, has
\* been ordered
C21_Witness ==
    /\ order_result.called
    /\ graph = <<SkillNode(id_a, <<>>), SkillNode(id_b, <<>>)>>

\* C22: every call of topological_order on one graph returns the same
\* sequence or the same error, whatever order the hash map yields its keys
\* in.
C22_Deterministic ==
    \A i, j \in 1..Len(calls) : calls[i].result = calls[j].result

\* two calls on a graph of three nodes without dependencies have met
\* different iteration orders and returned an order
C22_Witness ==
    /\ Len(calls) = 2
    /\ Cardinality(ZeroInDegree(graph)) = 3
    /\ calls[1].collected # calls[2].collected
    /\ calls[1].result.ok

\* two calls on a graph with a cycle beside two nodes without dependencies
\* have met different iteration orders and returned an error
C22_WitnessError ==
    /\ Len(calls) = 2
    /\ calls[1].collected # calls[2].collected
    /\ ~calls[1].result.ok


---------------------------------------------------------------------------
(* Claims about the memory selector (SpecMemory) *)

\* the 'key:value\n' lines of the entries, concatenated in insertion order
RECURSIVE Concatenation(_)
Concatenation(entries) ==
    IF entries = <<>> THEN <<>>
    ELSE Head(entries).key \o <<58>> \o Head(entries).value \o <<10>>
         \o Concatenation(Tail(entries))

\* the divisor of the tier
TierDivisor(tier) ==
    CASE tier = "CompressedSummary" -> 4 [] tier = "Delta" -> 2 [] tier = "Full" -> 1

\* r is the longest prefix of text, cut between code points, of at most
\* max_chars bytes
LongestPrefixWithin(r, text, max_chars) ==
    /\ Len(r) <= Len(text)
    /\ r = SubSeq(text, 1, Len(r))
    /\ ByteLen(r) <= max_chars
    /\ Len(r) < Len(text) => ByteLen(SubSeq(text, 1, Len(r) + 1)) > max_chars

\* C23: select_and_trim returns "" when the tier is None or budget_tokens
\* is 0; otherwise, with max_chars = 4 * floor(budget_tokens / d), d being
\* 4, 2, 1 for CompressedSummary, Delta, Full, it returns the longest
\* prefix of the concatenated 'key:value\n' lines that has at most
\* max_chars bytes and ends on a code-point boundary.
C23_SelectAndTrim ==
    \A i \in 1..Len(calls) :
        LET c == calls[i] IN
        IF c.tier = "None" \/ c.budget_tokens = 0 THEN c.result = <<>>
        ELSE LongestPrefixWithin(c.result, Concatenation(c.entries),
                                 4 * (c.budget_tokens \div TierDivisor(c.tier)))

\* a call whose limit of 4 bytes falls inside the three bytes of U+20AC in
\* the first of two entries: the result is "k:"
C23_Witness ==
    /\ Len(calls) = 1
    /\ calls[1].tier = "Delta" /\ calls[1].budget_tokens = 3
    /\ Len(calls[1].entries) = 2
    /\ calls[1].entries[1].key = <<107>> /\ calls[1].entries[1].value = <<8364>>
    /\ calls[1].entries[1].tier = "None"
    /\ calls[1].result = <<107, 58>>

---------------------------------------------------------------------------
(* Claims about the compiler (SpecCompile) *)

\* the template a configuration names, when the registry has it
TemplateOf(cfg) == Registry[cfg.base_template]

\* config.budget_limit if given, else template.max_budget
EffectiveBudgetOf(cfg) ==
    IF cfg.budget_limit = None THEN TemplateOf(cfg).max_budget ELSE cfg.budget_limit.value

AllAllowed(cfg) ==
    \A i \in 1..Len(cfg.selected_skills) :
        \E k \in 1..Len(TemplateOf(cfg).allowed_skills) :
            TemplateOf(cfg).allowed_skills[k] = cfg.selected_skills[i]

AllKnown(cfg, defs) ==
    \A i \in 1..Len(cfg.selected_skills) :
        \E k \in 1..Len(defs) : defs[k].id = cfg.selected_skills[i]

\* C8: with a registered template, allowed and known skills, compile
\* returns BudgetExceeded{requested = effective budget, max =
\* template.max_budget} exactly when the effective budget (budget_limit if
\* given, else max_budget) is greater than max_budget; an over-budget
\* configuration is never compiled, and every CompiledAgent carries
\* budget = effective budget <= max_budget of its template.
C8_BudgetExceeded ==
    (compile_result.called /\ user_config.base_template \in DOMAIN Registry) =>
        LET r == compile_result.result
            eff == EffectiveBudgetOf(user_config)
            max == TemplateOf(user_config).max_budget
        IN /\ (AllAllowed(user_config) /\ AllKnown(user_config, skills)) =>
                  ((r = Err(BudgetExceeded(eff, max))) <=> (eff > max))
           /\ (~r.ok /\ r.error.kind = "BudgetExceeded") =>
                  (r.error = BudgetExceeded(eff, max) /\ eff > max)
           /\ r.ok => (r.value.budget = eff /\ r.value.budget <= max /\ ~(eff > max))

\* compile has answered on configurations that give a budget_limit: one
\* above the template's max_budget was rejected with the two numbers, and
\* this one, equal to max_budget, was compiled
C8_Witness ==
    /\ compile_result.called
    /\ user_config.base_template = tid_tiny
    /\ user_config.budget_limit = Some(10)
    /\ Len(user_config.selected_skills) = 2
    /\ compile_result.result.ok
    /\ compile_result.result.value.budget = TinyTemplate.max_budget

\* the outcome the five checks give when taken in the order TemplateNotFound,
\* SkillNotAllowed, UnknownSkill, BudgetExceeded, GraphError
PrecedenceOutcome(cfg, defs) ==
    IF cfg.base_template \notin DOMAIN Registry THEN "TemplateNotFound"
    ELSE IF ~AllAllowed(cfg) THEN "SkillNotAllowed"
    ELSE IF ~AllKnown(cfg, defs) THEN "UnknownSkill"
    ELSE IF EffectiveBudgetOf(cfg) > TemplateOf(cfg).max_budget THEN "BudgetExceeded"
    ELSE IF ~Validate(GraphNodes(cfg)).ok THEN "GraphError"
    ELSE "Ok"

\* C9: compile returns the first failing check in the order
\* TemplateNotFound, SkillNotAllowed (the first selected skill the template
\* does not allow, whatever is unknown before it), UnknownSkill (the first
\* selected skill with no definition), BudgetExceeded, GraphError, and
\* returns a CompiledAgent only when none of the five fails.
C9_FailFastPrecedence ==
    compile_result.called =>
        LET r == compile_result.result
            sel == user_config.selected_skills
            want == PrecedenceOutcome(user_config, skills)
        IN /\ r.ok <=> (want = "Ok")
           /\ ~r.ok => r.error.kind = want
           /\ want = "TemplateNotFound" => r.error.template = user_config.base_template
           /\ want = "SkillNotAllowed" =>
                \E i \in 1..Len(sel) :
                    /\ r.error = SkillNotAllowed(sel[i], user_config.base_template)
                    /\ \A j \in 1..(i - 1) :
                          \E k \in 1..Len(TemplateOf(user_config).allowed_skills) :
                              TemplateOf(user_config).allowed_skills[k] = sel[j]
                    /\ \A k \in 1..Len(TemplateOf(user_config).allowed_skills) :
                          TemplateOf(user_config).allowed_skills[k] # sel[i]
           /\ want = "UnknownSkill" =>
                \E i \in 1..Len(sel) :
                    /\ r.error = UnknownSkill(sel[i])
                    /\ \A j \in 1..(i - 1) : \E k \in 1..Len(skills) : skills[k].id = sel[j]
                    /\ \A k \in 1..Len(skills) : skills[k].id # sel[i]

\* compile has answered SkillNotAllowed for the second selected skill on a
\* configuration whose first selected skill is unknown, whose budget is
\* over the template's maximum and whose second skill is the first one
\* the template does not allow
C9_Witness ==
    /\ compile_result.called
    /\ user_config.base_template = tid_tiny
    /\ user_config.selected_skills = <<id_ab, id_b>>
    /\ skills = <<def_b, def_a>>
    /\ user_config.budget_limit = Some(11)
    /\ compile_result.result = Err(SkillNotAllowed(id_b, tid_tiny))

\* the indices of the skill_dependencies entries whose skill_id is `id`
EntriesFor(cfg, id) ==
    {k \in 1..Len(cfg.skill_dependencies) : cfg.skill_dependencies[k].skill_id = id}

\* the j-th of them in configuration order
NthEntryFor(cfg, id, j) ==
    CHOOSE k \in EntriesFor(cfg, id) :
        Cardinality({m \in EntriesFor(cfg, id) : m <= k}) = j

\* C24: on success compile returns an agent whose skills are the
\* definitions of the selected skills in selection order, whose graph has
\* one node per selected skill in the same order with as dependencies
\* exactly the skill_dependencies entries whose skill_id is that skill,
\* whose memory_tier is the override if given else the template's default,
\* and whose response_mode and system_instruction are the template's.
C24_CompiledAgent ==
    (compile_result.called /\ compile_result.result.ok) =>
        LET agent == compile_result.result.value
            sel == user_config.selected_skills
            template == TemplateOf(user_config)
        IN /\ Len(agent.skills) = Len(sel)
           /\ \A i \in 1..Len(sel) :
                 /\ agent.skills[i].id = sel[i]
                 /\ \E k \in 1..Len(skills) : skills[k] = agent.skills[i]
           /\ Len(agent.graph) = Len(sel)
           /\ \A i \in 1..Len(sel) :
                 /\ agent.graph[i].skill_id = sel[i]
                 /\ Len(agent.graph[i].dependencies) =
                        Cardinality(EntriesFor(user_config, sel[i]))
                 /\ \A j \in 1..Len(agent.graph[i].dependencies) :
                       LET e == user_config.skill_dependencies[
                                    NthEntryFor(user_config, sel[i], j)]
                       IN /\ agent.graph[i].dependencies[j].source_skill = e.depends_on
                          /\ agent.graph[i].dependencies[j].fields = e.fields
           /\ agent.memory_tier =
                 (IF user_config.memory_tier_override = None
                  THEN template.default_memory_tier
                  ELSE user_config.memory_tier_override.value)
           /\ agent.response_mode = template.response_mode
           /\ agent.system_instruction = template.system_instruction

\* a configuration selecting "a" then "b", with two dependencies of "b" on
\* "a" that differ in their fields, and overriding the research template's
\* Delta tier with Full, has been compiled
C24_Witness ==
    /\ compile_result.called /\ compile_result.result.ok
    /\ user_config.base_template = tid_research
    /\ user_config.selected_skills = <<id_a, id_b>>
    /\ user_config.memory_tier_override = Some("Full")
    /\ user_config.skill_dependencies =
          <<SkillDep(id_b, id_a, <<s_results>>), SkillDep(id_b, id_a, <<>>)>>

\* the checks before build_graph pass
EarlierChecksPass(cfg, defs) ==
    /\ cfg.base_template \in DOMAIN Registry
    /\ AllAllowed(cfg)
    /\ AllKnown(cfg, defs)
    /\ ~(EffectiveBudgetOf(cfg) > TemplateOf(cfg).max_budget)

IsSelected(cfg, id) == \E i \in 1..Len(cfg.selected_skills) : cfg.selected_skills[i] = id

\* compile failed with GraphError carrying the MissingDependency of entry k
FailedWithMissing(r, cfg, k) ==
    /\ ~r.ok
    /\ r.error.kind = "GraphError"
    /\ r.error.message = <<"missing dependency: skill '", cfg.skill_dependencies[k].skill_id,
                           "' depends on '", cfg.skill_dependencies[k].depends_on, "'">>

\* C25 as stated: whenever skill_dependencies contains an entry whose
\* depends_on skill is not selected (and the earlier checks pass), compile
\* fails with GraphError carrying MissingDependency.
C25_MissingDependencyAlways ==
    (compile_result.called /\ EarlierChecksPass(user_config, skills)) =>
        ((\E k \in 1..Len(user_config.skill_dependencies) :
              ~IsSelected(user_config, user_config.skill_dependencies[k].depends_on))
         => \E k \in 1..Len(user_config.skill_dependencies) :
              FailedWithMissing(compile_result.result, user_config, k))

\* C25, amended: when the earlier checks pass, compile fails with
\* GraphError carrying MissingDependency exactly when skill_dependencies
\* contains an entry whose skill_id is selected and whose depends_on skill
\* is not; the error names such an entry. Entries whose skill_id is not
\* selected are dropped and cause no error.
C25_MissingDependencyOfSelected ==
    (compile_result.called /\ EarlierChecksPass(user_config, skills)) =>
        LET dangling == {k \in 1..Len(user_config.skill_dependencies) :
                           /\ IsSelected(user_config,
                                         user_config.skill_dependencies[k].skill_id)
                           /\ ~IsSelected(user_config,
                                          user_config.skill_dependencies[k].depends_on)}
        IN /\ dangling # {} =>
                \E k \in dangling : FailedWithMissing(compile_result.result, user_config, k)
           /\ dangling = {} =>
                \A k \in 1..Len(user_config.skill_dependencies) :
                    ~FailedWithMissing(compile_result.result, user_config, k)

\* compile has answered on a configuration that selects "b" alone and
\* lists a dependency of "a" on "b" before one of "b" on "a": the first is
\* dropped, the second is reported
C25_Witness ==
    /\ compile_result.called
    /\ EarlierChecksPass(user_config, skills)
    /\ user_config.selected_skills = <<id_b>>
    /\ user_config.skill_dependencies =
          <<SkillDep(id_a, id_b, <<>>), SkillDep(id_b, id_a, <<>>)>>
    /\ FailedWithMissing(compile_result.result, user_config, 2)


---------------------------------------------------------------------------
(* Claims about the execution engine (SpecEngine, SpecReuse) *)

\* the passes of this run that executed their skill
ExecutedPasses == {i \in 1..Len(run_log) : run_log[i].outcome = "executed"}

\* usage.total_tokens summed over the skills executed in passes 1..n
RECURSIVE UsageUpTo(_)
UsageUpTo(n) ==
    IF n = 0 THEN 0
    ELSE UsageUpTo(n - 1) + (IF n \in ExecutedPasses THEN run_log[n].usage_total ELSE 0)

\* max(0, x)
AtLeastZero(x) == IF x > 0 THEN x ELSE 0

\* C2: in every run, the first on an engine or a later one, each pass that
\* computes a delta for a skill B finds every dependency source A of B in
\* the outputs of this same run, stored by this run, and the delta is what
\* compute_delta gives on exactly those outputs; while the run goes on the
\* delta store holds this run's output for every skill executed in it.
C2_DeltaFromThisRun ==
    /\ \A i \in 1..Len(run_log) :
          run_log[i].outcome # "skipped" =>
              /\ \A d \in 1..Len(run_log[i].deps) :
                    LET source == run_log[i].deps[d].source_skill IN
                    /\ source \in DOMAIN run_log[i].outputs_before
                    /\ source \in DOMAIN run_log[i].stored_before
                    /\ run_log[i].stored_before[source] = runs
              /\ run_log[i].delta = ComputeDelta(run_log[i].outputs_before, run_log[i].deps)
    /\ pc = "running" =>
          \A id \in DOMAIN outputs : id \in DOMAIN delta_engine /\ delta_engine[id] = outputs[id]

\* in the second run on an engine, "b" was executed on a delta holding the
\* output of "a", which the provider produced anew in this run after an
\* earlier run had stored another output for "a"
C2_Witness ==
    /\ runs = 2
    /\ Len(run_log) = 2
    /\ run_log[1].skill_id = id_a /\ run_log[1].call = "provider"
    /\ run_log[1].stored_before # EmptyMap
    /\ id_a \in DOMAIN run_log[1].stored_before
    /\ run_log[2].skill_id = id_b /\ run_log[2].outcome = "executed"
    /\ id_a \in DOMAIN run_log[2].delta.fields


\* C3: a pass ends in BudgetExhausted exactly when the predicted total
\* (prompt + delta + memory + schema tokens + max_output_tokens, as a
\* number) is greater than budget_remaining + budget_remaining/4; nothing
\* is invoked in that pass, and the error carries used = agent.budget -
\* budget_remaining and limit = agent.budget.
C3_BudgetExhausted ==
    /\ \A i \in 1..Len(run_log) :
          run_log[i].outcome # "skipped" =>
              /\ (run_log[i].outcome = "exhausted") <=>
                    (run_log[i].predicted >
                        run_log[i].budget_before + run_log[i].budget_before \div 4)
              /\ run_log[i].outcome = "exhausted" =>
                    /\ run_log[i].call = "none"
                    /\ i = Len(run_log)
                    /\ pc = "idle"
                    /\ execute_result.called
                    /\ execute_result.result =
                          Err(BudgetExhausted(run_log[i].budget - run_log[i].budget_before,
                                              run_log[i].budget))

\* a skill was executed although its predicted total was above
\* budget_remaining + budget_remaining/4: the u32 sum had wrapped
C3_Witness ==
    \E i \in ExecutedPasses :
        /\ run_log[i].predicted > run_log[i].budget_before + run_log[i].budget_before \div 4
        /\ run_log[i].est_total < run_log[i].predicted
        /\ ~overflow_checks

\* C4 as stated: on a fresh engine the usage.total_tokens of the skills
\* executed in the run never sum to more than agent.budget.
C4_UsageWithinBudget ==
    (runs = 1 /\ run_log # <<>>) => UsageUpTo(Len(run_log)) <= run_log[1].budget

\* C4, amended: the budget bounds what is started, not what is used. A skill
\* is executed only if its computed estimate is at most budget_remaining or
\* at most budget_remaining + budget_remaining/4 as computed in u32, where
\* budget_remaining = max(0, agent.budget - usage recorded so far in the
\* run); so once the recorded usage has reached agent.budget only a skill
\* whose computed estimate is 0 is executed.
C4_PredictiveBudget ==
    runs = 1 =>
        \A i \in ExecutedPasses :
            /\ run_log[i].budget_before =
                  AtLeastZero(run_log[i].budget - UsageUpTo(i - 1))
            /\ \/ run_log[i].est_total <= run_log[i].budget_before
               \/ run_log[i].est_total <= Threshold(run_log[i].budget_before).value
            /\ UsageUpTo(i - 1) >= run_log[i].budget => run_log[i].est_total = 0

\* on a fresh engine the first skill used more than the whole budget and
\* the second was refused with BudgetExhausted
C4_Witness ==
    /\ runs = 1
    /\ Len(run_log) = 2
    /\ run_log[1].outcome = "executed"
    /\ run_log[1].usage_total > run_log[1].budget
    /\ run_log[2].outcome = "exhausted"

\* C5: during a run budget_remaining never increases from pass to pass,
\* lies in 0..agent.budget, and after each executed skill is
\* max(0, agent.budget - usage of the skills executed so far in the run).
C5_BudgetMonotone ==
    pc = "running" =>
        /\ budget_remaining >= 0
        /\ budget_remaining <= Agent.budget
        /\ budget_remaining = AtLeastZero(Agent.budget - UsageUpTo(Len(run_log)))
        /\ \A i \in 1..Len(run_log) :
              /\ run_log[i].budget_before =
                    AtLeastZero(Agent.budget - UsageUpTo(i - 1))
              /\ run_log[i].budget_before >=
                    (IF i < Len(run_log) THEN run_log[i + 1].budget_before
                     ELSE budget_remaining)

\* two skills were executed: the first left a positive remainder, the
\* second used more than that remainder and left 0
C5_Witness ==
    /\ pc = "running"
    /\ Len(run_log) = 2
    /\ ExecutedPasses = {1, 2}
    /\ run_log[2].budget_before > 0
    /\ run_log[2].budget_before < run_log[1].budget_before
    /\ run_log[2].usage_total > run_log[2].budget_before
    /\ budget_remaining = 0

\* C10: a CompiledAgent returned by compile has a graph that validate() and
\* topological_order() accept and whose every node has a definition in
\* agent.skills; execute on it never returns GraphError and no pass of
\* its loop skips a node.
C10_CompiledGraphValid ==
    /\ (compile_result.called /\ compile_result.result.ok) =>
          /\ Validate(Agent.graph).ok
          /\ TopologicalOrder(Agent.graph).ok
          /\ \A i \in 1..Len(Agent.graph) :
                \E k \in 1..Len(Agent.skills) : Agent.skills[k].id = Agent.graph[i].skill_id
    /\ execute_result.called =>
          (execute_result.result.ok \/ execute_result.result.error.kind # "GraphError")
    /\ \A i \in 1..Len(run_log) : run_log[i].outcome # "skipped"

\* on an agent that compile returned, execute ran both skills of a graph
\* with a dependency, skipped none and returned Ok with their two outputs
C10_Witness ==
    /\ execute_result.called
    /\ execute_result.result.ok
    /\ Len(run_log) = 2
    /\ run_log[2].deps # <<>>
    /\ DOMAIN execute_result.result.value.outputs = {id_a, id_b}

\* the ids of a list of skill definitions
SkillIds(defs) == {defs[i].id : i \in 1..Len(defs)}

\* C11: when execute has returned Ok, the passes of its loop were exactly
\* the skills of topological_order(agent.graph) in that order, each one
\* executed; every selected skill has exactly one pass, and the outputs of
\* the result have the selected skill ids as their keys, no more, no less.
C11_EverySkillOnce ==
    (pc = "idle" /\ execute_result.called /\ execute_result.result.ok) =>
        LET agent == run_start.agent
            selected == Range(run_start.config.selected_skills)
            t == TopologicalOrder(agent.graph)
        IN /\ t.ok
           /\ SkillIds(agent.skills) = selected
           /\ [i \in 1..Len(run_log) |-> run_log[i].skill_id] = t.value
           /\ \A i \in 1..Len(run_log) : run_log[i].outcome = "executed"
           /\ \A id \in selected :
                 Cardinality({i \in 1..Len(run_log) : run_log[i].skill_id = id}) = 1
           /\ DOMAIN execute_result.result.value.outputs = selected

\* execute returned Ok for the selection <<"a", "b">> in which "a" depends
\* on "b": "b" was executed first, then "a"
C11_Witness ==
    /\ pc = "idle"
    /\ execute_result.called
    /\ execute_result.result.ok
    /\ run_start.config.selected_skills = <<id_a, id_b>>
    /\ Len(run_log) = 2
    /\ run_log[1].skill_id = id_b
    /\ run_log[2].skill_id = id_a
    /\ DOMAIN execute_result.result.value.outputs = {id_a, id_b}

---------------------------------------------------------------------------
(* Claims about the skill executor (SpecExecutor) *)

\* C12: after a call of execute that returned Ok, every later call on the
\* same executor with the same skill id and the same input returns
\* cached = true, the output of that first call and zero usage, and invokes
\* neither the handler nor the provider.
C12_CacheIdempotence ==
    \A i \in 1..Len(calls) : \A j \in (i + 1)..Len(calls) :
        (/\ calls[i].result.ok
         /\ calls[j].skill.id = calls[i].skill.id
         /\ calls[j].input = calls[i].input) =>
            /\ calls[j].result =
                  Ok(SkillExecResult(calls[i].result.value.output, DefaultUsage, TRUE))
            /\ calls[j].call = "none"

\* "a" was executed by the provider with non-zero usage, and a later call
\* for "a" with the same input, under a definition that leaves room for one
\* token only, returned the same output from the cache
C12_Witness ==
    \E i \in 1..Len(calls) : \E j \in (i + 1)..Len(calls) :
        /\ calls[i].result.ok
        /\ calls[i].call = "provider"
        /\ calls[i].result.value.usage.total_tokens > 0
        /\ calls[j].skill = def_a_brief
        /\ calls[i].skill = def_a
        /\ calls[j].input = calls[i].input
        /\ calls[j].result.ok
        /\ calls[j].result.value.cached

\* C15: when a call of execute for an LLM skill reaches the provider and
\* the provider answers, content that is not JSON makes execute return
\* JsonParse and content that parses to a bare string makes it return
\* FreeTextRejected; in both cases the result holds no output and the
\* input cache is as it was before the call, without an entry for the call.
C15_ParseErrors ==
    \A i \in 1..Len(calls) :
        (calls[i].call = "provider" /\ calls[i].response.ok) =>
            LET content == calls[i].response.value.content
                rejected == IF ~content.ok THEN {JsonParse}
                            ELSE IF content.value.kind = "string" THEN {FreeTextRejected}
                            ELSE {}
            IN rejected # {} =>
                  /\ calls[i].skill.execution_mode = "LLM"
                  /\ ~calls[i].result.ok
                  /\ calls[i].result.error \in rejected
                  /\ calls[i].executor_after = calls[i].executor_before
                  /\ InputHash(calls[i].skill.id, calls[i].input)
                        \notin DOMAIN calls[i].executor_after.cache

\* three calls for the same skill and input: text that is not JSON gave
\* JsonParse, a bare string gave FreeTextRejected, and the third call went
\* to the provider again and succeeded
C15_Witness ==
    /\ Len(calls) = 3
    /\ calls[1].result = Err(JsonParse)
    /\ calls[2].result = Err(FreeTextRejected)
    /\ calls[2].response.value.content = Ok(JStr(<<112>>))
    /\ calls[3].call = "provider"
    /\ calls[3].result.ok
    /\ \A i \in 1..3 : calls[i].skill = def_a /\ calls[i].input = calls[1].input

---------------------------------------------------------------------------
(* Claims about the schema validator (SpecSchema) *)

\* the names that validate requires: the strings of "required" when the
\* descriptor is an object whose "required" is an array
RequiredOf(schema) ==
    IF IsObject(schema.schema) /\ s_required \in DOMAIN schema.schema.fields
       /\ schema.schema.fields[s_required].kind = "array"
    THEN {schema.schema.fields[s_required].items[i].s :
             i \in {j \in 1..Len(schema.schema.fields[s_required].items) :
                       schema.schema.fields[s_required].items[j].kind = "string"}}
    ELSE {}

\* the descriptor is an object whose "required" is an array
HasRequiredArray(schema) ==
    /\ IsObject(schema.schema)
    /\ s_required \in DOMAIN schema.schema.fields
    /\ schema.schema.fields[s_required].kind = "array"

\* every name of a set is a key of the value
AllPresent(names, value) ==
    \A name \in names : IsObject(value) /\ name \in DOMAIN value.fields

\* C13 as stated: strip_unknown_fields followed by validate accepts if and
\* only if every field listed in "required" is present in the output.
C13_StripThenValidate ==
    \A i \in 1..Len(calls) :
        calls[i].result.ok <=> AllPresent(RequiredOf(calls[i].schema), calls[i].stripped)

\* C13, amended: strip_unknown_fields followed by validate accepts if and
\* only if the output is an object whenever "required" is an array, and
\* every string listed in "required" is a key of the stripped output (so
\* a key of the output that "properties", when an object, declares).
C13_StripThenValidateObject ==
    \A i \in 1..Len(calls) :
        LET schema == calls[i].schema
            value == calls[i].value
            declared == IF IsObject(schema.schema)
                           /\ s_properties \in DOMAIN schema.schema.fields
                           /\ IsObject(schema.schema.fields[s_properties])
                        THEN DOMAIN schema.schema.fields[s_properties].fields
                        ELSE {s_results, s_summary, s_extra}
        IN /\ calls[i].result.ok <=>
                 /\ HasRequiredArray(schema) => IsObject(value)
                 /\ AllPresent(RequiredOf(schema) , value)
                 /\ RequiredOf(schema) \subseteq declared
           /\ calls[i].result.ok <=>
                 /\ HasRequiredArray(schema) => IsObject(calls[i].stripped)
                 /\ AllPresent(RequiredOf(schema), calls[i].stripped)

\* a value that is no object was rejected under a descriptor whose
\* "required" is the empty array
C13_Witness ==
    /\ calls # <<>>
    /\ HasRequiredArray(calls[1].schema)
    /\ RequiredOf(calls[1].schema) = {}
    /\ ~IsObject(calls[1].value)
    /\ calls[1].result = Err(TypeMismatch)

---------------------------------------------------------------------------
(* Claims about the rule order of validate (SpecValidate) *)

\* the strings of "required", in the order the descriptor lists them
RequiredInOrder(schema) ==
    IF HasRequiredArray(schema)
    THEN LET strs == SelectSeq(schema.schema.fields[s_required].items,
                               LAMBDA item : item.kind = "string")
         IN [i \in 1..Len(strs) |-> strs[i].s]
    ELSE <<>>

\* the keys of an object value that "properties", an object, does not declare
UndeclaredKeys(schema, value) ==
    IF /\ IsObject(schema.schema) /\ IsObject(value)
       /\ s_properties \in DOMAIN schema.schema.fields
       /\ IsObject(schema.schema.fields[s_properties])
    THEN {k \in DOMAIN value.fields :
             k \notin DOMAIN schema.schema.fields[s_properties].fields}
    ELSE {}

\* C26: validate applies its rules in a fixed order and the first
\* violation wins: a value that is no object, under a descriptor with a
\* "required" list, gives TypeMismatch; otherwise the first name in
\* required order that is absent gives MissingField(name); only if no
\* required field is missing does an undeclared key give UnknownField; a
\* value with both a missing required field and an undeclared key is
\* reported as MissingField.
C26_ValidateRuleOrder ==
    \A i \in 1..Len(calls) :
        LET schema == calls[i].schema
            value == calls[i].value
            r == calls[i].result
            names == RequiredInOrder(schema)
            missing == {n \in 1..Len(names) :
                          IsObject(value) /\ names[n] \notin DOMAIN value.fields}
            undeclared == UndeclaredKeys(schema, value)
        IN IF HasRequiredArray(schema) /\ ~IsObject(value)
           THEN r = Err(TypeMismatch)
           ELSE IF missing # {}
           THEN \E n \in missing : /\ r = Err(MissingField(names[n]))
                                    /\ \A m \in missing : n <= m
           ELSE IF undeclared # {}
           THEN \E k \in undeclared : r = Err(UnknownField(k))
           ELSE r.ok

\* validate has answered MissingField("summary") on the object {"extra": 1}
\* under a descriptor requiring "summary" then "results" and declaring both:
\* two fields are missing and one key is undeclared
C26_Witness ==
    /\ calls # <<>>
    /\ calls[1].value = ObjectWith({s_extra})
    /\ RequiredInOrder(calls[1].schema) = <<s_summary, s_results>>
    /\ UndeclaredKeys(calls[1].schema, calls[1].value) = {s_extra}
    /\ calls[1].result = Err(MissingField(s_summary))

---------------------------------------------------------------------------
(* Claims about deterministic skills and the output size (SpecHandlers) *)

\* the input of a call is not in the cache the call found
Uncached(c) == <<c.skill.id, c.input>> \notin DOMAIN c.executor_before.cache

\* C27: for a Deterministic skill whose input passes validation and is not
\* cached, execute returns DeterministicError when no handler is
\* registered under the skill id; otherwise it calls that handler exactly
\* once with the input, uses its return value as the raw output (a handler
\* error is returned unchanged), and reports zero usage.
C27_DeterministicSkill ==
    \A i \in 1..Len(calls) :
        LET c == calls[i]
            handlers == c.executor_before.deterministic_handlers
        IN (/\ c.skill.execution_mode = "Deterministic"
            /\ SchemaValidate(c.skill.input_schema, c.input).ok
            /\ Uncached(c)) =>
               IF c.skill.id \notin DOMAIN handlers
               THEN /\ c.result = Err(DeterministicError(c.skill.id))
                    /\ c.handler_calls = <<>>
               ELSE /\ c.handler_calls = <<c.input>>
                    /\ LET returned == HandlerApply(handlers[c.skill.id], c.input)
                       IN IF returned.ok
                          THEN /\ c.raw = Some(returned.value)
                               /\ c.result.ok =>
                                     /\ c.result.value.usage = TokenUsage(0, 0, 0)
                                     /\ ~c.result.value.cached
                          ELSE c.result = returned

\* with a failing handler registered for "ab" and none for "b", execute
\* has answered DeterministicError for "b" and the handler's own error for
\* "ab"
C27_Witness ==
    /\ Len(calls) >= 2
    /\ calls[1].skill = def_b_local
    /\ calls[1].result = Err(DeterministicError(id_b))
    /\ calls[2].skill = def_ab
    /\ calls[2].executor_before.deterministic_handlers[id_ab] = "failing"
    /\ calls[2].handler_calls = <<calls[2].input>>
    /\ calls[2].result = Err(HandlerFailed)

\* with an echoing handler, the input of the call has come back as the
\* output of the skill
C27_WitnessEcho ==
    /\ Len(calls) >= 1
    /\ calls[1].skill = def_ab
    /\ calls[1].executor_before.deterministic_handlers[id_ab] = "echo"
    /\ calls[1].result.ok
    /\ calls[1].result.value.output = calls[1].input

\* C28: execute returns OutputTooLarge{actual, max} exactly when
\* max_output_tokens > 0 and floor(len(serialized output) / 4) exceeds it,
\* the serialized form being the stripped output for StrictJson and the
\* key-renamed output for CompactJson; the output returned and cached on
\* success is the stripped output without key renaming in both modes.
C28_OutputTooLarge ==
    \A i \in 1..Len(calls) :
        LET c == calls[i]
            max == c.skill.max_output_tokens
            stripped == StripUnknownFields(c.skill.output_schema, c.raw.value)
            serialized == IF c.response_mode = "StrictJson" THEN stripped
                          ELSE ApplyCompactKeys(stripped, c.skill.compact_keys)
            actual == SerializedLen(serialized) \div 4
        IN /\ (c.raw.some /\ SchemaValidate(c.skill.output_schema, stripped).ok) =>
                /\ (max > 0 /\ actual > max) => c.result = Err(OutputTooLarge(actual, max))
                /\ ~(max > 0 /\ actual > max) =>
                      /\ c.result.ok
                      /\ c.result.value.output = stripped
                      /\ c.executor_after.cache[<<c.skill.id, c.input>>] = stripped
           /\ (~c.result.ok /\ c.result.error.kind = "OutputTooLarge") =>
                /\ c.raw.some
                /\ SchemaValidate(c.skill.output_schema, stripped).ok
                /\ max > 0 /\ actual > max

\* the output {"results":["local"]} (21 bytes, 5 tokens; 19 bytes and 4
\* tokens once "results" is renamed to "local", 24 bytes and 6 tokens once
\* renamed to "properties") was refused under StrictJson and accepted,
\* returned and cached unrenamed under CompactJson with room for 4 tokens,
\* and refused under CompactJson with room for 5
C28_Witness ==
    /\ Len(calls) = 3
    /\ calls[1].skill = def_ab_short /\ calls[1].response_mode = "StrictJson"
    /\ calls[1].result = Err(OutputTooLarge(5, 4))
    /\ calls[2].skill = def_ab_short /\ calls[2].response_mode = "CompactJson"
    /\ calls[2].input = calls[1].input
    /\ calls[2].result.ok
    /\ calls[2].result.value.output = JObj(Entry(s_results, JArr(<<JStr(s_local)>>)))
    /\ calls[2].executor_after.cache[<<id_ab, calls[2].input>>]
          = JObj(Entry(s_results, JArr(<<JStr(s_local)>>)))
    /\ calls[3].skill = def_ab_long /\ calls[3].response_mode = "CompactJson"
    /\ calls[3].result = Err(OutputTooLarge(6, 5))

---------------------------------------------------------------------------
(* Claims about the estimator (SpecEstimator) *)

\* C29: suggest_downgrades(est, budget) returns the empty list if and only
\* if est.total <= budget; otherwise, with over = est.total - budget, it
\* returns in this order TrimMemory{target = max(0, memory - over)} iff
\* memory > 0, ReduceContext{target = max(0, context - over/2)} iff
\* context > over/2, and always DowngradeModel as the last element.
C29_SuggestDowngrades ==
    \A i \in 1..Len(calls) :
        LET est == calls[i].est
            r == calls[i].result
            over == est.total - calls[i].budget
            half == over \div 2
            trim == [kind |-> "TrimMemory", target |-> AtLeastZero(est.memory - over)]
            reduce == [kind |-> "ReduceContext", target |-> AtLeastZero(est.context - half)]
        IN /\ (r = <<>>) <=> (est.total <= calls[i].budget)
           /\ est.total > calls[i].budget =>
                /\ r[Len(r)] = [kind |-> "DowngradeModel"]
                /\ Len(r) = 1 + (IF est.memory > 0 THEN 1 ELSE 0)
                               + (IF est.context > half THEN 1 ELSE 0)
                /\ est.memory > 0 => r[1] = trim
                /\ est.context > half => r[Len(r) - 1] = reduce

\* an estimate of 5 tokens with memory 2 and context 3 against a budget
\* of 1 has given TrimMemory{0}, ReduceContext{1}, DowngradeModel
C29_Witness ==
    /\ calls # <<>>
    /\ calls[1].est.total = 5 /\ calls[1].budget = 1
    /\ calls[1].est.memory = 2 /\ calls[1].est.context = 3
    /\ calls[1].result = <<[kind |-> "TrimMemory", target |-> 0],
                           [kind |-> "ReduceContext", target |-> 1],
                           [kind |-> "DowngradeModel"]>>

---------------------------------------------------------------------------
(* Claims about the input of a skill (SpecFlatten) *)

\* the sources of a delta whose value is an object
ObjectSources(delta) == {src \in DOMAIN delta.fields : IsObject(delta.fields[src])}

\* the union of the keys of every source's object value
FlatKeys(delta) == UNION {DOMAIN delta.fields[src].fields : src \in ObjectSources(delta)}

\* the source that the map yields last among those whose object has key k
LastSourceWith(delta, sources, k) ==
    sources[CHOOSE p \in 1..Len(sources) :
               /\ sources[p] \in ObjectSources(delta)
               /\ k \in DOMAIN delta.fields[sources[p]].fields
               /\ \A q \in (p + 1)..Len(sources) :
                     ~(/\ sources[q] \in ObjectSources(delta)
                       /\ k \in DOMAIN delta.fields[sources[q]].fields)]

\* C30: the input handed to a skill is {"input": "start"} whenever its
\* delta is the empty object; otherwise it is the one-level flattening of
\* the delta (the union of the keys of every source's object value, later
\* sources overwriting earlier ones on a key clash), and the delta itself
\* when that flattening is empty.
C30_SkillInput ==
    \A i \in 1..Len(calls) :
        LET delta == calls[i].delta
            input == calls[i].input
        IN IF DOMAIN delta.fields = {}
           THEN input = JObj(Entry(s_input, JStr(s_start)))
           ELSE IF FlatKeys(delta) = {} THEN input = delta
           ELSE /\ IsObject(input)
                /\ DOMAIN input.fields = FlatKeys(delta)
                /\ \A k \in FlatKeys(delta) :
                      input.fields[k] =
                        delta.fields[LastSourceWith(delta, calls[i].sources, k)].fields[k]

\* the delta {"a": {"results":["local"]}, "ab": null, "b": {"results":[1],
\* "summary":"start"}}, yielded in the order b, ab, a, has given the input
\* {"results":["local"], "summary":"start"}
C30_Witness ==
    /\ calls # <<>>
    /\ calls[1].sources = <<id_b, id_ab, id_a>>
    /\ calls[1].delta.fields[id_ab] = JNull
    /\ calls[1].delta.fields[id_a] = JObj(Entry(s_results, JArr(<<JStr(s_local)>>)))
    /\ calls[1].input =
          JObj(Merge(Entry(s_results, JArr(<<JStr(s_local)>>)),
                     Entry(s_summary, JStr(s_start))))

\* a delta whose only source holds {} has been handed on as it is
C30_WitnessUnflattened ==
    /\ calls # <<>>
    /\ DOMAIN calls[1].delta.fields = {id_a}
    /\ calls[1].delta.fields[id_a] = JObj(EmptyMap)
    /\ calls[1].input = calls[1].delta

---------------------------------------------------------------------------
(* Claims about the delta (SpecDelta) *)

\* the positions in deps of the dependencies on a source
DepsOn(deps, src) == {p \in 1..Len(deps) : deps[p].source_skill = src}

\* the sources that deps names
SourcesNamed(deps) == {deps[p].source_skill : p \in 1..Len(deps)}

\* the names of a fields list
NamesOf(fields) == {fields[p] : p \in 1..Len(fields)}

\* what one dependency yields of a stored output: the whole output for an
\* empty fields list, else the object of the named fields the output has
\* (the empty object for an output that is no object)
ProjectionOf(output, fields) ==
    IF fields = <<>> THEN output
    ELSE IF IsObject(output)
    THEN JObj([k \in DOMAIN output.fields \cap NamesOf(fields) |-> output.fields[k]])
    ELSE JObj(EmptyMap)

\* a dependency that compute_delta acts on: its fields list is empty or
\* the stored output is an object
Applies(output, fields) == fields = <<>> \/ IsObject(output)

\* C31 as stated: the keys of the delta are exactly the dependency sources
\* that have a stored output; the value for a source is its full output
\* when the fields list is empty, else an object of exactly the named
\* fields that exist in it; the store is left unchanged.
C31_ComputeDelta ==
    \A i \in 1..Len(calls) :
        LET c == calls[i] IN
        /\ IsObject(c.result)
        /\ DOMAIN c.result.fields = SourcesNamed(c.deps) \cap DOMAIN c.stored_before
        /\ \A src \in DOMAIN c.result.fields :
              Cardinality(DepsOn(c.deps, src)) = 1 =>
                 \A p \in DepsOn(c.deps, src) :
                    c.result.fields[src] =
                        ProjectionOf(c.stored_before[src], c.deps[p].fields)
        /\ delta_engine = c.stored_before

\* C31, amended: the keys of the delta are exactly the dependency sources
\* with a stored output that some dependency applies to (its fields list
\* is empty, or the stored output is an object); a dependency that names
\* fields of a stored output that is no object is skipped. The values and
\* the unchanged store are as stated.
C31_ComputeDeltaOfObjects ==
    \A i \in 1..Len(calls) :
        LET c == calls[i] IN
        /\ IsObject(c.result)
        /\ DOMAIN c.result.fields =
              {src \in SourcesNamed(c.deps) \cap DOMAIN c.stored_before :
                  \E p \in DepsOn(c.deps, src) :
                      Applies(c.stored_before[src], c.deps[p].fields)}
        /\ \A src \in DOMAIN c.result.fields :
              Cardinality(DepsOn(c.deps, src)) = 1 =>
                 \A p \in DepsOn(c.deps, src) :
                    c.result.fields[src] =
                        ProjectionOf(c.stored_before[src], c.deps[p].fields)
        /\ delta_engine = c.stored_before

\* with 1 stored for "a" and an object for "ab", compute_delta for the
\* dependencies (a, [results]), (ab, [summary, extra]) has left "a" out
\* and given {"summary":"start"} for "ab"
C31_Witness ==
    /\ calls # <<>>
    /\ id_a \in DOMAIN calls[1].stored_before
    /\ calls[1].stored_before[id_a] = JNum(1)
    /\ calls[1].deps = <<DependencySpec(id_a, <<s_results>>),
                         DependencySpec(id_ab, <<s_summary, s_extra>>)>>
    /\ calls[1].result = JObj(Entry(id_ab, JObj(Entry(s_summary, JStr(s_start)))))

\* the last position of a non-empty set of positions
LastOf(positions) == CHOOSE p \in positions : \A q \in positions : q <= p

\* C39 as stated: when deps holds several dependencies on one source, the
\* delta holds for that source what the last of them alone would give,
\* and nothing of the earlier ones.
C39_LastDependencyWins ==
    \A i \in 1..Len(calls) :
        LET c == calls[i] IN
        \A src \in DOMAIN c.stored_before :
            Cardinality(DepsOn(c.deps, src)) >= 2 =>
               LET last == c.deps[LastOf(DepsOn(c.deps, src))] IN
               IF Applies(c.stored_before[src], last.fields)
               THEN /\ src \in DOMAIN c.result.fields
                    /\ c.result.fields[src] = ProjectionOf(c.stored_before[src], last.fields)
               ELSE src \notin DOMAIN c.result.fields

\* C39, amended: the delta holds for that source the projection of the
\* last dependency on it that applies (fields list empty, or stored output
\* an object), and nothing of the dependencies before that one.
C39_LastApplyingDependencyWins ==
    \A i \in 1..Len(calls) :
        LET c == calls[i] IN
        \A src \in DOMAIN c.stored_before :
            Cardinality(DepsOn(c.deps, src)) >= 2 =>
               LET applying == {p \in DepsOn(c.deps, src) :
                                  Applies(c.stored_before[src], c.deps[p].fields)}
               IN IF applying # {}
                  THEN /\ src \in DOMAIN c.result.fields
                       /\ c.result.fields[src] =
                             ProjectionOf(c.stored_before[src], c.deps[LastOf(applying)].fields)
                  ELSE src \notin DOMAIN c.result.fields

\* two dependencies on "a", the first naming `results` and the second
\* `summary`, have given {"a": {"summary":"start"}}: `results` is lost
C39_Witness ==
    /\ calls # <<>>
    /\ calls[1].deps = <<DependencySpec(id_a, <<s_results>>),
                         DependencySpec(id_a, <<s_summary, s_extra>>)>>
    /\ id_a \in DOMAIN calls[1].stored_before
    /\ calls[1].result = JObj(Entry(id_a, JObj(Entry(s_summary, JStr(s_start)))))

---------------------------------------------------------------------------
(* Claims about node ids listed twice (SpecSelection) *)

\* two entries of a list of ids, or two nodes of a node list, are the same
HasDuplicate(ids) == \E i \in 1..Len(ids) : \E j \in 1..Len(ids) : i # j /\ ids[i] = ids[j]

\* C37: a graph with two nodes of the same skill_id, all of whose
\* dependency sources exist, is rejected with CycleDetected by
\* topological_order() and by validate(), also when its dependency
\* relation has no directed cycle; and compile of a configuration that
\* passes the earlier checks and lists a skill twice in selected_skills
\* fails with GraphError
C37_DuplicateIds ==
    /\ (HasDuplicate([i \in 1..Len(graph) |-> graph[i].skill_id])
        /\ AllSourcesExist(graph)) =>
          /\ order_result.called => order_result.result = Err(CycleDetected)
          /\ validate_result.called => validate_result.result = Err(CycleDetected)
    /\ (compile_result.called
        /\ EarlierChecksPass(user_config, skills)
        /\ HasDuplicate(user_config.selected_skills)) =>
          /\ ~compile_result.result.ok
          /\ compile_result.result.error.kind = "GraphError"

\* nodes "a", "b", "b", the first "b" depending on "a": no directed cycle,
\* both calls return CycleDetected and compile of <<a, b, b>> fails with
\* its message
C37_Witness ==
    /\ Len(graph) = 3
    /\ [i \in 1..3 |-> graph[i].skill_id] = <<id_a, id_b, id_b>>
    /\ graph[2].dependencies = <<DependencySpec(id_a, <<>>)>>
    /\ graph[3].dependencies = <<>>
    /\ ~HasDirectedCycle(graph)
    /\ order_result.called /\ order_result.result = Err(CycleDetected)
    /\ validate_result.called /\ validate_result.result = Err(CycleDetected)
    /\ compile_result.called
    /\ EarlierChecksPass(user_config, skills)
    /\ compile_result.result = Err(CompileGraphError(CycleDetected))

---------------------------------------------------------------------------
(* Claims about a graph that was not validated (SpecHandBuilt) *)

\* the node ids that have a dependency whose source is no node
LackingSource(nodes) ==
    {nodes[i].skill_id : i \in {k \in 1..Len(nodes) :
        \E j \in 1..Len(nodes[k].dependencies) :
            nodes[k].dependencies[j].source_skill \notin NodeIds(nodes)}}

\* those ids and every id that depends on one of them, directly or not
Blocked(nodes) == ReachFrom(DepEdges(nodes), LackingSource(nodes), LackingSource(nodes))

\* the `order` vector of topological_order when its loop ends
Emitted(nodes, collected) ==
    KahnLoop(SortQueue(collected), InDegree(nodes), <<>>, Adj(nodes)).order

\* C38: on a graph in which some dependency's source_skill is no node,
\* topological_order() emits neither a node with such a dependency nor a
\* node reachable from one and returns CycleDetected, not
\* MissingDependency; and execute on an agent with such a graph returns
\* GraphError with that message before any skill was looked at: nothing
\* was executed, recorded, stored or cached
C38_UnvalidatedGraph ==
    ~AllSourcesExist(graph) =>
        /\ \A collected \in IterationOrders(ZeroInDegree(graph)) :
              Range(Emitted(graph, collected)) \cap Blocked(graph) = {}
        /\ order_result.called => order_result.result = Err(CycleDetected)
        /\ run_start.called =>
              /\ pc = "idle"
              /\ execute_result = [called |-> TRUE,
                                   result |-> Err(ExecGraphError(CycleDetected))]
              /\ run_log = <<>>
              /\ tracker = NewTracker
              /\ delta_engine = EmptyMap
              /\ skill_executor = NewExecutor

\* the agent has the nodes "a" and "b", "b" depending on "a" and "a" on
\* "ab", which is no node: the order stays empty, topological_order
\* returned CycleDetected and execute GraphError
C38_Witness ==
    /\ Len(graph) = 2
    /\ graph[1] = SkillNode(id_a, <<DependencySpec(id_ab, <<>>)>>)
    /\ graph[2] = SkillNode(id_b, <<DependencySpec(id_a, <<>>)>>)
    /\ Blocked(graph) = {id_a, id_b}
    /\ order_result.called /\ order_result.result = Err(CycleDetected)
    /\ run_start.called
    /\ execute_result.called
    /\ execute_result.result.error.kind = "GraphError"
    /\ execute_result.result.error.message = <<"cycle detected in skill graph">>

---------------------------------------------------------------------------
(* Claims about the prompt of a skill on a reused engine (SpecReuse) *)

\* the passes of the current run in which the provider was asked
AskedPasses == {i \in 1..Len(run_log) : run_log[i].call = "provider"}

\* C35: on one engine, the system prompt sent to the provider for a skill
\* id is the system_instruction of the agent whose run was the first on
\* this engine to reach that skill id, also in a later run of an agent with
\* another system_instruction
C35_FirstAgentsPrompt ==
    \A i \in AskedPasses :
        /\ run_log[i].skill_id \in DOMAIN calls
        /\ run_log[i].prompt = calls[run_log[i].skill_id]

\* the first run, of the research agent, reached "a" and the provider
\* failed; the second run is of the writer agent, and "Research agent." was
\* sent for "a" again
C35_Witness ==
    /\ runs = 2
    /\ run_start.called
    /\ run_start.agent.system_instruction = instr_writer
    /\ Len(run_log) >= 1
    /\ run_log[1].skill_id = id_a
    /\ run_log[1].call = "provider"
    /\ run_log[1].prompt = instr_research
    /\ calls[id_a] = instr_research

---------------------------------------------------------------------------
(* Claims about the width of the budget arithmetic (SpecEngine) *)

\* C40: for every budget and max_output_tokens that a u32 holds, the u32
\* arithmetic of a pass stays in range: the sum of the five parts of the
\* estimate, budget_remaining + budget_remaining/4, and agent.budget -
\* budget_remaining neither overflow nor underflow
C40_BudgetArithmeticInRange ==
    \A i \in 1..Len(run_log) :
        run_log[i].outcome # "skipped" =>
            /\ run_log[i].predicted <= U32Max
            /\ run_log[i].est_total = run_log[i].predicted
            /\ run_log[i].budget_before + run_log[i].budget_before \div 4 <= U32Max
            /\ run_log[i].budget_before <= run_log[i].budget

\* in a build with overflow checks the pass for a skill whose
\* max_output_tokens is the largest u32 ended in the panic of the sum
C40_Witness ==
    /\ overflow_checks
    /\ pc = "panicked"
    /\ run_log # <<>>
    /\ run_log[Len(run_log)].outcome = "panic"
    /\ run_log[Len(run_log)].predicted > U32Max
    /\ FindSkill(Agent.skills, run_log[Len(run_log)].skill_id).value.max_output_tokens = U32Max

---------------------------------------------------------------------------
(* Claims about errors and hits of the input cache (SpecExecutor) *)

\* the kinds of SkillExecError that execute returns
ExecErrorKinds ==
    {"SchemaViolation", "DeterministicError", "Provider", "JsonParse",
     "FreeTextRejected", "OutputTooLarge"}

\* call j repeats the skill and the input of the failed call i, and every
\* call between the two failed as well
RepeatsFailed(i, j) ==
    /\ i < j
    /\ calls[j].skill = calls[i].skill
    /\ calls[j].input = calls[i].input
    /\ \A k \in i..(j - 1) : ~calls[k].result.ok

\* C34: when execute returns an error, of whatever kind, the input cache is
\* as it was before the call, and a later execute with the same skill and
\* input is not answered from the cache: it invokes again what the failed
\* call invoked
C34_ErrorsLeaveCache ==
    \A i \in 1..Len(calls) :
        ~calls[i].result.ok =>
            /\ calls[i].result.error.kind \in ExecErrorKinds
            /\ calls[i].executor_after.cache = calls[i].executor_before.cache
            /\ \A j \in 1..Len(calls) :
                  RepeatsFailed(i, j) =>
                      /\ calls[j].call = calls[i].call
                      /\ calls[j].result.ok => ~calls[j].result.value.cached

\* the output of skill "a" was valid and too large for one token; the same
\* call was made again and asked the provider again, which failed; the
\* third call asked it once more
C34_Witness ==
    /\ Len(calls) = 3
    /\ \A i \in 1..3 :
          /\ calls[i].skill = def_a_brief
          /\ calls[i].input = JObj(Entry(s_input, JStr(s_start)))
          /\ calls[i].call = "provider"
          /\ calls[i].executor_after.cache = EmptyMap
    /\ calls[1].result = Err(OutputTooLarge(3, 1))
    /\ calls[2].result = Err(ProviderError(CallFailed))
    /\ calls[3].result = Err(OutputTooLarge(3, 1))

\* C36: a hit of the input cache depends on the skill id and the input
\* alone: once the cache has an entry for them, execute returns it, marked
\* cached and with no usage, invokes nothing and changes nothing, whether
\* or not the input or the cached output is valid or small enough for the
\* definition passed in, and whatever its execution mode and the response
\* mode
C36_HitByIdAndInput ==
    \A i \in 1..Len(calls) :
        LET hash == InputHash(calls[i].skill.id, calls[i].input)
            cache == calls[i].executor_before.cache
        IN hash \in DOMAIN cache =>
              /\ calls[i].result = Ok(SkillExecResult(cache[hash], DefaultUsage, TRUE))
              /\ calls[i].call = "none"
              /\ calls[i].executor_after = calls[i].executor_before

\* {"results":[1]} was cached for the LLM skill "a"; a call in the other
\* response mode for the deterministic skill "a", which has no handler,
\* requires `summary` in input and output and allows one token, got it back
C36_Witness ==
    /\ Len(calls) = 2
    /\ calls[1].skill = def_a
    /\ calls[1].response_mode = "StrictJson"
    /\ calls[1].result.ok
    /\ calls[2].skill = def_a_local
    /\ calls[2].response_mode = "CompactJson"
    /\ calls[2].input = calls[1].input
    /\ ~SchemaValidate(def_a_local.input_schema, calls[2].input).ok
    /\ calls[2].result =
          Ok(SkillExecResult(JObj(Entry(s_results, JArr(<<JNum(1)>>))), DefaultUsage, TRUE))

---------------------------------------------------------------------------
(* Claims about the compressor (SpecCompress) *)

\* what the claim says of a string: itself when it has at most max bytes,
\* else its longest prefix of at most max bytes cut between code points
TruncatedTo(r, s, max) == IF ByteLen(s) <= max THEN r = s ELSE LongestPrefixWithin(r, s, max)

\* r is v with every string, at any depth below objects and arrays,
\* truncated to max bytes, and with the keys and the lengths of v
RECURSIVE SameButTruncated(_, _, _)
SameButTruncated(r, v, max) ==
    /\ r.kind = v.kind
    /\ CASE v.kind = "object" ->
              /\ DOMAIN r.fields = DOMAIN v.fields
              /\ \A k \in DOMAIN v.fields : SameButTruncated(r.fields[k], v.fields[k], max)
         [] v.kind = "array" ->
              /\ Len(r.items) = Len(v.items)
              /\ \A i \in 1..Len(v.items) : SameButTruncated(r.items[i], v.items[i], max)
         [] v.kind = "string" -> TruncatedTo(r.s, v.s, max)
         [] OTHER -> r = v

\* C32: with no key mapping, compress leaves strings of at most
\* max_string_len bytes and all other scalars unchanged, replaces every
\* longer string at any depth by its longest prefix of at most
\* max_string_len bytes that ends between code points, and preserves the
\* keys of objects and the lengths of arrays
C32_CompressTruncates ==
    \A i \in 1..Len(calls) :
        DOMAIN calls[i].compressor.key_mapping = {} =>
            SameButTruncated(calls[i].result, calls[i].value,
                             calls[i].compressor.max_string_len)

\* {"a":[{"b":"日本"},"日本"]} compressed to 4 bytes a string: both strings,
\* two levels apart, are cut to "日"
C32_Witness ==
    /\ calls # <<>>
    /\ DOMAIN calls[1].compressor.key_mapping = {}
    /\ calls[1].compressor.max_string_len = 4
    /\ calls[1].value = JObj(Entry(id_a, JArr(<<JObj(Entry(id_b, JStr(<<26085, 26412>>))),
                                               JStr(<<26085, 26412>>)>>)))
    /\ calls[1].result = JObj(Entry(id_a, JArr(<<JObj(Entry(id_b, JStr(<<26085>>))),
                                                JStr(<<26085>>)>>)))

\* C33: for every configuration and every value, compressing the result of
\* compress again changes nothing
C33_CompressIdempotent == \A i \in 1..Len(calls) : calls[i].again = calls[i].result

\* with the mappings a -> b and b -> ab, {"a":1} becomes {"b":1}, and that
\* becomes {"ab":1}
C33_Witness ==
    /\ calls # <<>>
    /\ calls[1].compressor.key_mapping = Merge(Entry(id_a, id_b), Entry(id_b, id_ab))
    /\ calls[1].value = JObj(Entry(id_a, JNum(1)))
    /\ calls[1].result = JObj(Entry(id_b, JNum(1)))
    /\ calls[1].again = JObj(Entry(id_ab, JNum(1)))

---------------------------------------------------------------------------
(* Claims about what the engine returns (SpecEngine, SpecReuse) *)

\* the value is an object with every required field of the descriptor and
\* no field that its "properties" does not declare
Conforms(schema, value) ==
    /\ IsObject(value)
    /\ AllPresent(RequiredOf(schema), value)
    /\ DOMAIN value.fields \subseteq DOMAIN schema.schema.fields[s_properties].fields

\* the definition a run used for a skill id
RunSkill(id) == FindSkill(run_start.agent.skills, id).value

\* what the handler or the provider produced in a pass, before stripping
RawOf(entry) ==
    RawOutput(entry.executor_before, RunSkill(entry.skill_id), SkillInput(entry.delta),
              entry.response).result

C16_StopAtFirstFailure ==
    \A k \in 1..Len(run_log) :
        run_log[k].outcome \in {"skill_error", "exhausted"} =>
            /\ k = Len(run_log)
            /\ pc = "idle"
            /\ position = k
            /\ execute_result.called
            /\ ~execute_result.result.ok
            /\ execute_result.result.error.kind =
                  (IF run_log[k].outcome = "exhausted" THEN "BudgetExhausted"
                   ELSE "SkillError")
            /\ \A j \in 1..k : run_log[j].skill_id = order[j]
            /\ \A j \in 1..(k - 1) : run_log[j].outcome = "executed"
            /\ runs = 1 =>
                  /\ [j \in 1..Len(tracker.records) |-> tracker.records[j].skill_id]
                        = [j \in 1..(k - 1) |-> order[j]]
                  /\ \A j \in 1..Len(tracker.records) :
                        /\ tracker.records[j].skill_id # order[k]
                        /\ tracker.records[j].total_tokens = run_log[j].usage_total

\* on a fresh engine the first skill of two was executed and recorded, the
\* provider then failed for the second, and execute returned SkillError
\* with the second skill never recorded
C16_Witness ==
    /\ runs = 1
    /\ Len(order) = 2
    /\ Len(run_log) = 2
    /\ run_log[1].outcome = "executed"
    /\ run_log[1].usage_total > 0
    /\ run_log[2].outcome = "skill_error"
    /\ run_log[2].response = Err(CallFailed)
    /\ run_log[2].call = "provider"
    /\ Len(tracker.records) = 1
    /\ pc = "idle"

\* the passes of this run in which call_model was invoked
ProviderPasses == {i \in 1..Len(run_log) : run_log[i].call = "provider"}

\* C17: in a run call_model is invoked in at most one pass per skill, and
\* only for an LLM skill whose (skill id, input) is not in the input cache
\* and whose input passes input_schema; when the provider fails, that pass
\* is the last of the run and execute returns the provider's error.
C17_NoRetries ==
    /\ \A i \in ProviderPasses : \A j \in ProviderPasses :
          run_log[i].skill_id = run_log[j].skill_id => i = j
    /\ \A i \in ProviderPasses :
          LET skill == RunSkill(run_log[i].skill_id)
              input == SkillInput(run_log[i].delta)
          IN /\ skill.execution_mode = "LLM"
             /\ InputHash(skill.id, input) \notin DOMAIN run_log[i].executor_before.cache
             /\ Conforms(skill.input_schema, input)
             /\ ~run_log[i].response.ok =>
                   /\ i = Len(run_log)
                   /\ pc = "idle"
                   /\ execute_result.called
                   /\ execute_result.result =
                         Err(SkillError(ProviderError(run_log[i].response.error)))

\* in its second run on an engine the LLM skill "a" was served from the
\* input cache without a call, and the provider then failed on its single
\* call for "b"
C17_Witness ==
    /\ runs = 2
    /\ Len(run_log) = 2
    /\ run_log[1].skill_id = id_a
    /\ run_log[1].outcome = "executed"
    /\ run_log[1].call = "none"
    /\ run_log[2].call = "provider"
    /\ run_log[2].response = Err(CallFailed)
    /\ pc = "idle"

\* C18 as stated: execute starts from an empty delta store and an empty
\* tracker, also on an engine that has run before, so that while a run goes
\* on both hold what this run produced and no more, and the total_tokens
\* and the report of its result cover the skills executed in this run only.
C18_PerRunState ==
    /\ run_start.called =>
          /\ run_start.tracker.records = <<>>
          /\ run_start.delta_engine = EmptyMap
    /\ pc = "running" =>
          /\ Len(tracker.records) = Cardinality(ExecutedPasses)
          /\ DOMAIN delta_engine = DOMAIN outputs
    /\ (pc = "idle" /\ execute_result.called /\ execute_result.result.ok) =>
          /\ execute_result.result.value.total_tokens = UsageUpTo(Len(run_log))
          /\ Len(execute_result.result.value.report.lines) = Len(run_log)

\* the second run on an engine returned Ok with a total_tokens above the
\* usage of the skills it executed, and a report with more lines than the
\* run had passes
C18_Witness ==
    /\ runs = 2
    /\ pc = "idle"
    /\ execute_result.called
    /\ execute_result.result.ok
    /\ run_start.tracker.records # <<>>
    /\ execute_result.result.value.total_tokens > UsageUpTo(Len(run_log))
    /\ Len(execute_result.result.value.report.lines) > Len(run_log)

---------------------------------------------------------------------------
(* Claims about the token optimizer (SpecTracker, SpecPromptCache) *)

\* the breakdowns handed to record() in the first n calls, in call order
RECURSIVE RecordedUpTo(_)
RecordedUpTo(n) ==
    IF n = 0 THEN <<>>
    ELSE IF calls[n].op = "record" THEN Append(RecordedUpTo(n - 1), calls[n].breakdown)
    ELSE RecordedUpTo(n - 1)

\* C19: after any sequence of record calls, records() holds the recorded
\* breakdowns in call order, one per call, and every total_tokens() call
\* returns the sum of total_tokens over the records made before it.
C19_TrackerSums ==
    /\ tracker.records = RecordedUpTo(Len(calls))
    /\ \A i \in 1..Len(calls) :
          calls[i].op = "total_tokens" =>
              LET recorded == RecordedUpTo(i) IN
              calls[i].result =
                  Ok(SumSeq([j \in 1..Len(recorded) |-> recorded[j].total_tokens]))

\* in a build without overflow checks total_tokens() returned less than
\* the total_tokens of one of the two records made
C19_Witness ==
    /\ ~overflow_checks
    /\ Len(calls) = 3
    /\ calls[3].op = "total_tokens"
    /\ calls[3].result.ok
    /\ calls[3].result.value < calls[1].breakdown.total_tokens
    /\ Len(tracker.records) = 2

\* the first call for the key of call j
FirstFor(j) == CHOOSE i \in 1..j :
                  /\ calls[i].key = calls[j].key
                  /\ \A h \in 1..(i - 1) : calls[h].key # calls[j].key

\* C20: get_or_compile(key, raw) installs raw on the first call for a
\* key; every later call for the key returns the Arc installed then (same
\* allocation, same text), whatever raw it is given; and no call changes
\* the entry of another key.
C20_PromptCacheIdentity ==
    \A j \in 1..Len(calls) :
        /\ calls[FirstFor(j)].returned.text = calls[FirstFor(j)].raw
        /\ calls[j].returned = calls[FirstFor(j)].returned
        /\ \A k \in DOMAIN calls[j].cache_before :
              /\ k \in DOMAIN calls[j].cache_after
              /\ calls[j].cache_after[k] = calls[j].cache_before[k]

\* "Research agent." was installed for "a", another text for "b", and a
\* later call for "a" with the text "Tiny." returned the first Arc
C20_Witness ==
    /\ Len(calls) = 3
    /\ calls[1].key = id_a /\ calls[1].raw = instr_research
    /\ calls[2].key = id_b /\ calls[2].raw = instr_tiny
    /\ calls[3].key = id_a /\ calls[3].raw = instr_tiny
    /\ calls[3].returned = [ptr |-> 1, text |-> instr_research]

=============================================================================
